---- MODULE Spec2Model ----
(***************************************************************************)
(* bridge: `bridge run` (src/src/commands/run.rs), the file lock it takes  *)
(* (src/src/lock.rs) and the remote executor it calls (src/src/ssh.rs).    *)
(*                                                                         *)
(* Several invocations of `run` execute on one machine.  Each is a         *)
(* sequential process; the only state they share is the table of advisory  *)
(* file locks of the kernel, keyed by lock path.  Strings are sequences of *)
(* characters.  Times are whole seconds read from the invocation's own     *)
(* monotonic clock (Instant), so every invocation has its own elapsed      *)
(* counters and the interleaving of invocations is unconstrained.          *)
(***************************************************************************)
EXTENDS Integers, Sequences, FiniteSets, TLC

VARIABLES
    pc,          \* position of each invocation inside run()
    args,        \* arguments and host profile of each invocation
    guard,       \* _lock_guard: {} or {path of the file whose lock is held}
    waited,      \* lock.rs `start.elapsed()`; 0 once run() has moved on
    exit_code,   \* run.rs `exit_code`: {} until the primary command returned
    elapsed,     \* run.rs `start.elapsed()` of the reconnection loop
    result,      \* {} until run() returned, then {Ok(n)} or {Err(e)}
    acquired,    \* number of LockGuards the invocation was handed
    released,    \* number of LockGuards the invocation dropped
    primary_runs,   \* transport clients spawned for the primary command
    recovery_runs,  \* transport clients spawned for the recovery command
    rc_exit,     \* run.rs `rc_exit`: {} until the recovery command returned
    passed_at,   \* elapsed time seen by the last reconnection check passed
    probe_at,    \* elapsed time at which the last probe was issued
    recovery_at, \* elapsed time at which a probe was seen to succeed
    call,        \* arguments of the string function under analysis
    ret,         \* {} until that function returned, then {its value}; in
                 \* ExecSpec the error with which composition failed
    sent         \* command lines handed to the transport client, in order

run_vars == <<pc, args, guard, waited, exit_code, elapsed, result, acquired,
              released, primary_runs, recovery_runs, rc_exit, passed_at,
              probe_at, recovery_at>>

vars == <<run_vars, call, ret, sent>>

(***************************************************************************)
(* Bounds of the model.                                                    *)
(***************************************************************************)
\* thread::sleep may return up to MaxJitter seconds late
MaxJitter == 1

Procs == {1, 2}

(***************************************************************************)
(* Option<T>: None is {}, Some(x) is {x}.                                  *)
(***************************************************************************)
None == {}

Some(x) == {x}

Unwrap(o) == CHOOSE x \in o : TRUE

\* Option::unwrap_or
unwrap_or(o, d) == IF o = None THEN d ELSE Unwrap(o)

\* Result<i32>
Ok(n) == [ok |-> n]

Err(e) == [err |-> e]

IsOk(r) == DOMAIN r = {"ok"}

(***************************************************************************)
(* Program constants.                                                      *)
(***************************************************************************)
\* lock.rs: poll_interval = Duration::from_secs(2)
LockPollInterval == 2

\* run.rs: poll_interval = Duration::from_secs(5)
PollInterval == 5

\* the exit status by which the transport client reports a lost connection
Disconnect == 255

\* ssh.rs: status.code().unwrap_or(1)
NoCodeStatus == 1

\* run.rs: LockSetting::Default => Some("default")
DefaultLockName == <<"d", "e", "f", "a", "u", "l", "t">>

(***************************************************************************)
(* Inputs of an invocation: the host profile read from bridge.toml and the *)
(* command line overrides.                                                 *)
(***************************************************************************)
HostNames == {<<"h">>, <<"h", "-", "a">>}

OtherLockName == <<"a", "-">> \o DefaultLockName

\* config.rs LockSetting
Off == [kind |-> "Off", name |-> <<>>]

Default == [kind |-> "Default", name |-> <<>>]

Named(n) == [kind |-> "Named", name |-> n]

ReconnectCmd == <<"r", "c">>

LockTimeouts == {0, LockPollInterval + 1}

ReconnectTimeouts == {0, PollInterval + 2}

AllInputs ==
    [ hostname : HostNames,
      host_lock : {Off, Default, Named(OtherLockName)},
      host_lock_timeout : {LockPollInterval + 1},
      host_reconnect_command : {None, Some(ReconnectCmd)},
      host_reconnect_timeout : {PollInterval + 2},
      lock_override : {None, Some(DefaultLockName), Some(OtherLockName)},
      lock_timeout_override : {None} \cup {Some(t) : t \in LockTimeouts},
      reconnect_command_override : {None, Some(ReconnectCmd)},
      reconnect_timeout_override :
          {None} \cup {Some(t) : t \in ReconnectTimeouts},
      do_sync : BOOLEAN,
      dry_run : BOOLEAN ]

\* the inputs drawn: parameters the run never reads are left at one value
Inputs ==
    {in \in AllInputs :
        /\ in.dry_run =>
               /\ in.host_reconnect_command = None
               /\ in.reconnect_command_override = None
               /\ in.reconnect_timeout_override = None
        /\ (in.host_reconnect_command = None
               /\ in.reconnect_command_override = None) =>
               in.reconnect_timeout_override = None
        /\ (in.host_lock = Off /\ in.lock_override = None) =>
               /\ in.lock_timeout_override = None
               /\ in.hostname = <<"h">>
        /\ in.hostname # <<"h">> =>
               /\ in.lock_override = None
               /\ in.host_lock = Default}

\* run.rs 36-38
ResolveReconnectCommand(override, host_reconnect_command) ==
    IF override # None THEN override ELSE host_reconnect_command

\* run.rs 39
ResolveReconnectTimeout(override, host_reconnect_timeout) ==
    unwrap_or(override, host_reconnect_timeout)

\* mutant: the lock setting of the host profile wins over the command line
ResolveLockName_config_first(lock_override, host_lock) ==
    CASE host_lock.kind = "Off" -> lock_override
      [] host_lock.kind = "Default" -> Some(DefaultLockName)
      [] host_lock.kind = "Named" -> Some(host_lock.name)

\* run.rs 42-49
ResolveLockName(lock_override, host_lock) ==
    IF lock_override # None THEN lock_override
    ELSE CASE host_lock.kind = "Off" -> None
           [] host_lock.kind = "Default" -> Some(DefaultLockName)
           [] host_lock.kind = "Named" -> Some(host_lock.name)

\* run.rs 71
ResolveLockTimeout(override, host_lock_timeout) ==
    unwrap_or(override, host_lock_timeout)

\* the settings run() works with once the overrides are resolved
Settings(in) ==
    [ hostname |-> in.hostname,
      lock_name |-> ResolveLockName(in.lock_override, in.host_lock),
      lock_timeout |->
          ResolveLockTimeout(in.lock_timeout_override, in.host_lock_timeout),
      reconnect_command |->
          ResolveReconnectCommand(in.reconnect_command_override,
                                  in.host_reconnect_command),
      reconnect_timeout |->
          ResolveReconnectTimeout(in.reconnect_timeout_override,
                                  in.host_reconnect_timeout),
      dry_run |-> in.dry_run ]

NoSettings ==
    [ hostname |-> <<>>, lock_name |-> None, lock_timeout |-> 0,
      reconnect_command |-> None, reconnect_timeout |-> 0,
      dry_run |-> FALSE ]

(***************************************************************************)
(* lock.rs                                                                 *)
(***************************************************************************)
\* mutant: the lock name is left out of the path
lock_path_host_only(hostname, lock_name) ==
    <<"/", "t", "m", "p", "/", "b", "r", "i", "d", "g", "e", "-">>
        \o hostname \o <<".", "l", "o", "c", "k">>

\* lock.rs 23: format!("/tmp/bridge-{}-{}.lock", hostname, lock_name)
lock_path(hostname, lock_name) ==
    <<"/", "t", "m", "p", "/", "b", "r", "i", "d", "g", "e", "-">>
        \o hostname \o <<"-">> \o lock_name \o <<".", "l", "o", "c", "k">>

\* the kernel's view: some open file of `path` holds the exclusive lock
Locked(path) == \E q \in Procs : guard[q] = Some(path)

\* mutant: the lock is taken in shared mode, which never conflicts
try_lock_shared(path) == TRUE

\* fs2 try_lock_exclusive(): flock(LOCK_EX | LOCK_NB) succeeds iff no
\* other open file of the path holds the lock
try_lock_exclusive(path) == ~Locked(path)

\* mutant: the timeout is reported one poll interval early
LockTimedOut_early(w, timeout) == w + LockPollInterval >= timeout

\* mutant: `>` for `>=`
LockTimedOut_strict(w, timeout) == w > timeout

\* lock.rs 49: start.elapsed() >= timeout
LockTimedOut(w, timeout) == w >= timeout

\* mutant: `start` is taken anew in every iteration of the loop
AfterLockSleep_restarted(w, j) == 0

\* lock.rs 58: thread::sleep(poll_interval), late by j
AfterLockSleep(w, j) == w + LockPollInterval + j

(***************************************************************************)
(* run.rs                                                                  *)
(***************************************************************************)
\* mutant: the loop gives up one poll interval early
ReconnectTimedOut_early(e, timeout) == e + PollInterval >= timeout

\* mutant: `>` for `>=`
ReconnectTimedOut_strict(e, timeout) == e > timeout

\* run.rs 103: start.elapsed() >= timeout
ReconnectTimedOut(e, timeout) == e >= timeout

\* mutant: `start` is taken anew in every iteration of the loop
AfterPollSleep_restarted(e, j) == 0

\* run.rs 108: thread::sleep(poll_interval), late by j
AfterPollSleep(e, j) == e + PollInterval + j

\* mutant: any failure of the primary command starts the reconnection
ShouldReconnect_any_failure(code, reconnect_command) ==
    code # 0 /\ reconnect_command # None

\* run.rs 94-95: exit_code == 255 and a reconnect command is configured
ShouldReconnect(code, reconnect_command) ==
    code = Disconnect /\ reconnect_command # None

\* mutant: a timeout is reported as a generic failure
TimeoutStatus_generic == NoCodeStatus

\* run.rs 105: return Ok(255)
TimeoutStatus == Disconnect

\* ssh.rs 71: status.code().unwrap_or(1)
StatusCode(code) == unwrap_or(code, NoCodeStatus)

\* what ExitStatus::code() can be: an exit code, or nothing (signal)
ExitCodes == {None, Some(0), Some(Disconnect)}

\* outcomes of run_remote_command up to the spawn (ssh.rs 28-67)
SpawnOutcomes == {"spawned", "compose_err", "spawn_err"}

LockPathOf(p) == lock_path(args[p].hostname, Unwrap(args[p].lock_name))

\* Drop of _lock_guard: closing the file releases its lock
DropGuard(p) ==
    /\ guard' = [guard EXCEPT ![p] = None]
    /\ released' = [released EXCEPT ![p] = @ + Cardinality(guard[p])]

\* mutant: the guard is released by an explicit unlock on the Ok path only
Return_unlock_on_ok(p, r) ==
    /\ pc' = [pc EXCEPT ![p] = "done"]
    /\ result' = [result EXCEPT ![p] = Some(r)]
    /\ IF IsOk(r) THEN DropGuard(p) ELSE UNCHANGED <<guard, released>>

\* run() returns r: the locals go out of scope
Return(p, r) ==
    /\ pc' = [pc EXCEPT ![p] = "done"]
    /\ result' = [result EXCEPT ![p] = Some(r)]
    /\ DropGuard(p)

\* mutant: `let _ = acquire_lock(..)` drops the guard at once
TakeGuard_dropped(p) ==
    /\ acquired' = [acquired EXCEPT ![p] = @ + 1]
    /\ released' = [released EXCEPT ![p] = @ + 1]
    /\ pc' = [pc EXCEPT ![p] = "guarded"]
    /\ UNCHANGED <<result, guard>>

\* Ok(LockGuard { _file: file }), bound to _lock_guard (run.rs 70)
TakeGuard(p) ==
    /\ guard' = [guard EXCEPT ![p] = Some(LockPathOf(p))]
    /\ acquired' = [acquired EXCEPT ![p] = @ + 1]
    /\ pc' = [pc EXCEPT ![p] = "guarded"]
    /\ UNCHANGED <<result, released>>

\* no string function is under analysis while run() is explored
NoCall == [fn |-> "none"]

\* main.rs 98-106: no invocation has entered run() yet
Idle ==
    /\ pc = [p \in Procs |-> "idle"]
    /\ args = [p \in Procs |-> NoSettings]
    /\ guard = [p \in Procs |-> None]
    /\ waited = [p \in Procs |-> 0]
    /\ exit_code = [p \in Procs |-> None]
    /\ elapsed = [p \in Procs |-> 0]
    /\ result = [p \in Procs |-> None]
    /\ acquired = [p \in Procs |-> 0]
    /\ released = [p \in Procs |-> 0]
    /\ primary_runs = [p \in Procs |-> 0]
    /\ recovery_runs = [p \in Procs |-> 0]
    /\ rc_exit = [p \in Procs |-> None]
    /\ passed_at = [p \in Procs |-> None]
    /\ probe_at = [p \in Procs |-> None]
    /\ recovery_at = [p \in Procs |-> None]

Init ==
    /\ Idle
    /\ call = NoCall
    /\ ret = None
    /\ sent = <<>>

\* run.rs 12-22: run() is called
Invoke(p) ==
    /\ pc[p] = "idle"
    /\ \E in \in Inputs :
          /\ args' = [args EXCEPT ![p] = Settings(in)]
          /\ pc' = [pc EXCEPT ![p] = IF in.do_sync THEN "sync" ELSE "load"]
    /\ UNCHANGED <<call, ret, sent, guard, waited, exit_code, elapsed, result, acquired,
                   released, primary_runs, recovery_runs, rc_exit,
                   passed_at, probe_at, recovery_at>>

\* mutant: the lock is claimed before the sync is run
Sync_under_lock(p) ==
    /\ pc[p] = "sync"
    /\ \E ok \in BOOLEAN :
          IF ok
          THEN /\ pc' = [pc EXCEPT ![p] = "load"]
               /\ guard' = [guard EXCEPT ![p] =
                      IF args[p].lock_name # None
                         /\ try_lock_exclusive(LockPathOf(p))
                      THEN Some(LockPathOf(p)) ELSE @]
               /\ UNCHANGED <<result, released>>
          ELSE Return(p, Err("sync"))
    /\ UNCHANGED <<call, ret, sent, args, waited, exit_code, elapsed, acquired,
                   primary_runs, recovery_runs, rc_exit, passed_at, probe_at,
                   recovery_at>>

\* run.rs 24-26: sync::run(...)?
Sync(p) ==
    /\ pc[p] = "sync"
    /\ \E ok \in BOOLEAN :
          IF ok
          THEN /\ pc' = [pc EXCEPT ![p] = "load"]
               /\ UNCHANGED <<result, guard, released>>
          ELSE Return(p, Err("sync"))
    /\ UNCHANGED <<call, ret, sent, args, waited, exit_code, elapsed, acquired, primary_runs,
                   recovery_runs, rc_exit, passed_at, probe_at, recovery_at>>

\* mutant: a dry run returns before the lock is looked at
Load_dry_run_skips_lock(p) ==
    /\ pc[p] = "load"
    /\ \E ok \in BOOLEAN :
          IF ok
          THEN /\ pc' = [pc EXCEPT ![p] =
                     IF args[p].lock_name # None /\ ~args[p].dry_run
                     THEN "acquire" ELSE "guarded"]
               /\ UNCHANGED <<result, guard, released>>
          ELSE Return(p, Err("config"))
    /\ UNCHANGED <<call, ret, sent, args, waited, exit_code, elapsed, acquired,
                   primary_runs, recovery_runs, rc_exit, passed_at, probe_at,
                   recovery_at>>

\* run.rs 28-33: find_and_load()?, get_host()?, load_env_files()?
Load(p) ==
    /\ pc[p] = "load"
    /\ \E ok \in BOOLEAN :
          IF ok
          THEN /\ pc' = [pc EXCEPT ![p] =
                     IF args[p].lock_name # None THEN "acquire" ELSE "guarded"]
               /\ UNCHANGED <<result, guard, released>>
          ELSE Return(p, Err("config"))
    /\ UNCHANGED <<call, ret, sent, args, waited, exit_code, elapsed, acquired, primary_runs,
                   recovery_runs, rc_exit, passed_at, probe_at, recovery_at>>

\* mutant: the timeout is checked before the first attempt
AcquireLock_check_first(p) ==
    /\ pc[p] = "acquire"
    /\ \E opened \in BOOLEAN :
          IF ~opened
          THEN Return(p, Err("open_lock")) /\ UNCHANGED <<acquired, waited>>
          ELSE IF LockTimedOut(0, args[p].lock_timeout)
               THEN /\ Return(p, Err("lock_timeout"))
                    /\ UNCHANGED <<acquired, waited>>
               ELSE IF try_lock_exclusive(LockPathOf(p))
                    THEN TakeGuard(p) /\ UNCHANGED waited
                    ELSE /\ waited' = [waited EXCEPT ![p] = 0]
                         /\ pc' = [pc EXCEPT ![p] = "lock_check"]
                         /\ UNCHANGED <<result, guard, released, acquired>>
    /\ UNCHANGED <<call, ret, sent, args, exit_code, elapsed, primary_runs,
                   recovery_runs, rc_exit, passed_at, probe_at, recovery_at>>

\* lock.rs 23-45: open the lock file, first non-blocking attempt
AcquireLock(p) ==
    /\ pc[p] = "acquire"
    /\ \E opened \in BOOLEAN :
          IF ~opened
          THEN Return(p, Err("open_lock")) /\ UNCHANGED <<acquired, waited>>
          ELSE IF try_lock_exclusive(LockPathOf(p))
               THEN TakeGuard(p) /\ UNCHANGED waited
               ELSE /\ waited' = [waited EXCEPT ![p] = 0]
                    /\ pc' = [pc EXCEPT ![p] = "lock_check"]
                    /\ UNCHANGED <<result, guard, released, acquired>>
    /\ UNCHANGED <<call, ret, sent, args, exit_code, elapsed, primary_runs, recovery_runs,
                   rc_exit, passed_at, probe_at, recovery_at>>

\* lock.rs 49-56: the timeout check at the top of the loop
LockCheck(p) ==
    /\ pc[p] = "lock_check"
    /\ IF LockTimedOut(waited[p], args[p].lock_timeout)
       THEN Return(p, Err("lock_timeout"))
       ELSE /\ pc' = [pc EXCEPT ![p] = "lock_sleep"]
            /\ UNCHANGED <<result, guard, released>>
    /\ UNCHANGED <<call, ret, sent, args, waited, exit_code, elapsed, acquired, primary_runs,
                   recovery_runs, rc_exit, passed_at, probe_at, recovery_at>>

\* mutant: the loop sleeps but does not try the lock again
LockPoll_sleep_only(p) ==
    /\ pc[p] = "lock_sleep"
    /\ \E j \in 0..MaxJitter :
          waited' = [waited EXCEPT ![p] = AfterLockSleep(@, j)]
    /\ IF FALSE
       THEN TakeGuard(p)
       ELSE /\ pc' = [pc EXCEPT ![p] = "lock_check"]
            /\ UNCHANGED <<result, guard, released, acquired>>
    /\ UNCHANGED <<call, ret, sent, args, exit_code, elapsed, primary_runs, recovery_runs,
                   rc_exit, passed_at, probe_at, recovery_at>>

\* mutant: after the sleep the caller blocks in lock_exclusive() until the
\* lock is free
LockPoll_blocking(p) ==
    /\ pc[p] = "lock_sleep"
    /\ \E j \in 0..MaxJitter :
          waited' = [waited EXCEPT ![p] = AfterLockSleep(@, j)]
    /\ try_lock_exclusive(LockPathOf(p))
    /\ TakeGuard(p)
    /\ UNCHANGED <<call, ret, sent, args, exit_code, elapsed, primary_runs,
                   recovery_runs, rc_exit, passed_at, probe_at, recovery_at>>

\* lock.rs 58-63: sleep, then try again
LockPoll(p) ==
    /\ pc[p] = "lock_sleep"
    /\ \E j \in 0..MaxJitter :
          waited' = [waited EXCEPT ![p] = AfterLockSleep(@, j)]
    /\ IF try_lock_exclusive(LockPathOf(p))
       THEN TakeGuard(p)
       ELSE /\ pc' = [pc EXCEPT ![p] = "lock_check"]
            /\ UNCHANGED <<result, guard, released, acquired>>
    /\ UNCHANGED <<call, ret, sent, args, exit_code, elapsed, primary_runs, recovery_runs,
                   rc_exit, passed_at, probe_at, recovery_at>>

\* run.rs 77-91 and ssh.rs 28-67: dry run, or compose and spawn the primary
\* (the locals of acquire_lock are gone by now)
StartPrimary(p) ==
    /\ pc[p] = "guarded"
    /\ IF args[p].dry_run
       THEN Return(p, Ok(0)) /\ UNCHANGED primary_runs
       ELSE \E o \in SpawnOutcomes :
               IF o = "spawned"
               THEN /\ pc' = [pc EXCEPT ![p] = "primary"]
                    /\ primary_runs' = [primary_runs EXCEPT ![p] = @ + 1]
                    /\ UNCHANGED <<result, guard, released>>
               ELSE Return(p, Err(o)) /\ UNCHANGED primary_runs
    /\ waited' = [waited EXCEPT ![p] = 0]
    /\ UNCHANGED <<call, ret, sent, args, exit_code, elapsed, acquired, recovery_runs,
                   rc_exit, passed_at, probe_at, recovery_at>>

\* mutant: a non-zero status of the primary command is raised as an error
PrimaryExit_failure_is_error(p) ==
    /\ pc[p] = "primary"
    /\ \E wait_ok \in BOOLEAN, code \in ExitCodes :
          IF ~wait_ok
          THEN Return(p, Err("wait_err")) /\ UNCHANGED <<exit_code, elapsed>>
          ELSE /\ exit_code' = [exit_code EXCEPT ![p] = Some(StatusCode(code))]
               /\ IF ShouldReconnect(StatusCode(code),
                                     args[p].reconnect_command)
                  THEN /\ elapsed' = [elapsed EXCEPT ![p] = 0]
                       /\ pc' = [pc EXCEPT ![p] = "poll_check"]
                       /\ UNCHANGED <<result, guard, released>>
                  ELSE /\ Return(p, IF StatusCode(code) = 0
                                    THEN Ok(0) ELSE Err("spawn_err"))
                       /\ UNCHANGED elapsed
    /\ UNCHANGED <<call, ret, sent, args, waited, acquired, primary_runs,
                   recovery_runs, rc_exit, passed_at, probe_at, recovery_at>>

\* ssh.rs 69-71 and run.rs 93-100, 132: the primary command ends
PrimaryExit(p) ==
    /\ pc[p] = "primary"
    /\ \E wait_ok \in BOOLEAN, code \in ExitCodes :
          IF ~wait_ok
          THEN Return(p, Err("wait_err")) /\ UNCHANGED <<exit_code, elapsed>>
          ELSE /\ exit_code' = [exit_code EXCEPT ![p] = Some(StatusCode(code))]
               /\ IF ShouldReconnect(StatusCode(code),
                                     args[p].reconnect_command)
                  THEN /\ elapsed' = [elapsed EXCEPT ![p] = 0]
                       /\ pc' = [pc EXCEPT ![p] = "poll_check"]
                       /\ UNCHANGED <<result, guard, released>>
                  ELSE Return(p, Ok(StatusCode(code))) /\ UNCHANGED elapsed
    /\ UNCHANGED <<call, ret, sent, args, waited, acquired, primary_runs, recovery_runs,
                   rc_exit, passed_at, probe_at, recovery_at>>

\* run.rs 103-106: the timeout check at the top of the loop
PollCheck(p) ==
    /\ pc[p] = "poll_check"
    /\ IF ReconnectTimedOut(elapsed[p], args[p].reconnect_timeout)
       THEN Return(p, Ok(TimeoutStatus)) /\ UNCHANGED passed_at
       ELSE /\ pc' = [pc EXCEPT ![p] = "poll_sleep"]
            /\ passed_at' = [passed_at EXCEPT ![p] = Some(elapsed[p])]
            /\ UNCHANGED <<result, guard, released>>
    /\ UNCHANGED <<call, ret, sent, args, waited, exit_code, elapsed, acquired, primary_runs,
                   recovery_runs, rc_exit, probe_at, recovery_at>>

\* run.rs 108-124: sleep, check_connection, and on success compose and
\* spawn the recovery command
Probe(p) ==
    /\ pc[p] = "poll_sleep"
    /\ \E j \in 0..MaxJitter, reachable \in BOOLEAN, o \in SpawnOutcomes :
          /\ elapsed' = [elapsed EXCEPT ![p] = AfterPollSleep(@, j)]
          /\ probe_at' = [probe_at EXCEPT ![p] = Some(elapsed'[p])]
          /\ IF ~reachable
             THEN /\ pc' = [pc EXCEPT ![p] = "poll_check"]
                  /\ UNCHANGED <<result, guard, released, recovery_at,
                                 recovery_runs>>
             ELSE /\ recovery_at' = [recovery_at EXCEPT ![p] = Some(elapsed'[p])]
                  /\ IF o = "spawned"
                     THEN /\ pc' = [pc EXCEPT ![p] = "recovery"]
                          /\ recovery_runs' =
                                 [recovery_runs EXCEPT ![p] = @ + 1]
                          /\ UNCHANGED <<result, guard, released>>
                     ELSE Return(p, Err(o)) /\ UNCHANGED recovery_runs
    /\ UNCHANGED <<call, ret, sent, args, waited, exit_code, acquired, primary_runs, rc_exit,
                   passed_at>>

\* mutant: the status of the primary command is returned after recovery
RecoveryExit_primary_status(p) ==
    /\ pc[p] = "recovery"
    /\ \E wait_ok \in BOOLEAN, code \in ExitCodes :
          IF ~wait_ok
          THEN Return(p, Err("wait_err")) /\ UNCHANGED rc_exit
          ELSE /\ rc_exit' = [rc_exit EXCEPT ![p] = Some(StatusCode(code))]
               /\ Return(p, Ok(Unwrap(exit_code[p])))
    /\ UNCHANGED <<call, ret, sent, args, waited, exit_code, elapsed, acquired, primary_runs,
                   recovery_runs, passed_at, probe_at, recovery_at>>

\* mutant: a recovery command that ends with 255 is taken for another
\* disconnect and the polling goes on
RecoveryExit_reconnects(p) ==
    /\ pc[p] = "recovery"
    /\ \E wait_ok \in BOOLEAN, code \in ExitCodes :
          IF ~wait_ok
          THEN Return(p, Err("wait_err")) /\ UNCHANGED rc_exit
          ELSE /\ rc_exit' = [rc_exit EXCEPT ![p] = Some(StatusCode(code))]
               /\ IF StatusCode(code) = Disconnect
                  THEN /\ pc' = [pc EXCEPT ![p] = "poll_check"]
                       /\ UNCHANGED <<result, guard, released>>
                  ELSE Return(p, Ok(StatusCode(code)))
    /\ UNCHANGED <<call, ret, sent, args, waited, exit_code, elapsed, acquired,
                   primary_runs, recovery_runs, passed_at, probe_at,
                   recovery_at>>

\* ssh.rs 69-71 and run.rs 124-126: the recovery command ends
RecoveryExit(p) ==
    /\ pc[p] = "recovery"
    /\ \E wait_ok \in BOOLEAN, code \in ExitCodes :
          IF ~wait_ok
          THEN Return(p, Err("wait_err")) /\ UNCHANGED rc_exit
          ELSE /\ rc_exit' = [rc_exit EXCEPT ![p] = Some(StatusCode(code))]
               /\ Return(p, Ok(StatusCode(code)))
    /\ UNCHANGED <<call, ret, sent, args, waited, exit_code, elapsed, acquired, primary_runs,
                   recovery_runs, passed_at, probe_at, recovery_at>>

Next ==
    \E p \in Procs :
        \/ Invoke(p)
        \/ Sync(p)
        \/ Load(p)
        \/ AcquireLock(p)
        \/ LockCheck(p)
        \/ LockPoll(p)
        \/ StartPrimary(p)
        \/ PrimaryExit(p)
        \/ PollCheck(p)
        \/ Probe(p)
        \/ RecoveryExit(p)

Spec == Init /\ [][Next]_vars

\* an invocation inside one of its two poll loops goes on: the sleep
\* returns, and so do the lock attempt and the probe (ConnectTimeout=5)
FairSpec ==
    /\ Spec
    /\ \A p \in Procs :
          /\ WF_vars(LockCheck(p)) /\ WF_vars(LockPoll(p))
          /\ WF_vars(PollCheck(p)) /\ WF_vars(Probe(p))

(***************************************************************************)
(* Vocabulary of the properties.                                           *)
(***************************************************************************)
Invoked(p) == pc[p] # "idle"

UsesLock(p) == Invoked(p) /\ args[p].lock_name # None

\* p and q were invoked for the same (hostname, lockName) pair
SamePair(p, q) ==
    /\ UsesLock(p) /\ UsesLock(q)
    /\ args[p].hostname = args[q].hostname
    /\ args[p].lock_name = args[q].lock_name

HoldsGuard(p) == guard[p] # None

InLockWait(p) == pc[p] \in {"lock_check", "lock_sleep"}

Polling(p) == pc[p] \in {"poll_check", "poll_sleep"}

\* primary command running, polling for reachability, or recovery running
InRemotePhase(p) == pc[p] = "primary" \/ Polling(p) \/ pc[p] = "recovery"

Done(p) == pc[p] = "done"

Returned(p, r) == Done(p) /\ result[p] = Some(r)

ReturnedOk(p) == Done(p) /\ IsOk(Unwrap(result[p]))

(***************************************************************************)
(* C1: at most one LockGuard exists at a time for a (hostname, lockName)   *)
(* pair: two invocations for the same pair never hold their guards at the  *)
(* same time, and an invocation is handed a guard only in a step before    *)
(* which no other invocation of the pair holds one.                        *)
(***************************************************************************)
C1_MutualExclusion ==
    \A p, q \in Procs :
        (p # q /\ SamePair(p, q)) => ~(HoldsGuard(p) /\ HoldsGuard(q))

\* the second invocation of a pair holds the guard, after having waited
\* for the first one, which has returned and released its own
C1_Witness ==
    \E p, q \in Procs :
        /\ p # q /\ SamePair(p, q)
        /\ Done(p) /\ acquired[p] = 1 /\ released[p] = 1
        /\ HoldsGuard(q) /\ waited[q] > 0

(***************************************************************************)
(* C2: an invocation with a lock name holds the lock of its pair while it  *)
(* runs the primary command, polls for reachability or runs the recovery   *)
(* command; no two invocations of one pair are in these phases together,   *)
(* and the other one is before its acquisition, in the lock wait, or done. *)
(***************************************************************************)
C2_LockHeldInRemotePhases ==
    \A p \in Procs :
        (InRemotePhase(p) /\ UsesLock(p)) =>
            /\ guard[p] = Some(LockPathOf(p))
            /\ \A q \in Procs \ {p} :
                  SamePair(p, q) =>
                      /\ ~InRemotePhase(q)
                      /\ \/ pc[q] \in {"sync", "load", "acquire"}
                         \/ InLockWait(q)
                         \/ Done(q)

\* one invocation polls for reachability while the other one of the same
\* pair is waiting for the lock
C2_Witness ==
    \E p, q \in Procs :
        /\ p # q /\ SamePair(p, q)
        /\ pc[p] = "poll_sleep" /\ HoldsGuard(p)
        /\ pc[q] = "lock_sleep"

(***************************************************************************)
(* C3: on every path by which run ends after having acquired the lock, the *)
(* guard is released exactly once, and the lock is free afterwards.        *)
(***************************************************************************)
C3_ReleasedExactlyOnce ==
    \A p \in Procs :
        /\ released[p] <= acquired[p]
        /\ acquired[p] <= 1
        /\ Done(p) =>
              /\ released[p] = acquired[p]
              /\ ~HoldsGuard(p)

\* an invocation ended by a spawn error after it had acquired the lock, and
\* the other invocation of the pair has acquired it since
C3_Witness ==
    \E p, q \in Procs :
        /\ p # q /\ SamePair(p, q)
        /\ Returned(p, Err("spawn_err"))
        /\ acquired[p] = 1 /\ released[p] = 1
        /\ HoldsGuard(q)

(***************************************************************************)
(* C4: run polls for reachability only when the primary command ended with *)
(* 255 and a recovery command is configured; in every other case it        *)
(* returns the primary exit status unchanged, with no probe and no         *)
(* recovery command.                                                       *)
(***************************************************************************)
C4_ReconnectOnlyOnDisconnect ==
    \A p \in Procs :
        /\ (Polling(p) \/ pc[p] = "recovery" \/ passed_at[p] # None
               \/ probe_at[p] # None \/ recovery_runs[p] > 0) =>
              /\ exit_code[p] = Some(Disconnect)
              /\ args[p].reconnect_command # None
        /\ (Done(p) /\ exit_code[p] # None
               /\ ~(exit_code[p] = Some(Disconnect)
                       /\ args[p].reconnect_command # None)) =>
              /\ result[p] = Some(Ok(Unwrap(exit_code[p])))
              /\ probe_at[p] = None
              /\ recovery_runs[p] = 0

\* the primary command ended with 255, no recovery command is configured,
\* and run has returned 255 without a probe
C4_Witness ==
    \E p \in Procs :
        /\ Returned(p, Ok(Disconnect))
        /\ exit_code[p] = Some(Disconnect)
        /\ args[p].reconnect_command = None
        /\ probe_at[p] = None

Timeout(p) == args[p].reconnect_timeout

\* the primary command ended with 255 and a recovery command is configured
Disconnected(p) ==
    exit_code[p] = Some(Disconnect) /\ args[p].reconnect_command # None

(***************************************************************************)
(* C5, as stated: after a disconnect, once a probe has succeeded before    *)
(* the recovery timeout, the recovery command is executed and run returns  *)
(* its exit status.                                                        *)
(***************************************************************************)
C5_Original ==
    \A p \in Procs :
        (Done(p) /\ Disconnected(p) /\ recovery_at[p] # None
            /\ Unwrap(recovery_at[p]) < Timeout(p)) =>
            /\ recovery_runs[p] = 1
            /\ rc_exit[p] # None
            /\ result[p] = Some(Ok(Unwrap(rc_exit[p])))

(***************************************************************************)
(* C5, amended: once a probe has succeeded, the recovery command is        *)
(* composed and spawned; run returns the recovery command's exit status,   *)
(* or the error when composing, spawning or waiting for it fails; it       *)
(* never returns the 255 of the primary command in its place.              *)
(***************************************************************************)
C5_RecoveryStatusReturned ==
    \A p \in Procs :
        recovery_at[p] # None =>
            /\ Disconnected(p)
            /\ \/ pc[p] = "recovery" /\ recovery_runs[p] = 1
                    /\ rc_exit[p] = None
               \/ Done(p) /\ recovery_runs[p] = 1 /\ rc_exit[p] # None
                    /\ result[p] = Some(Ok(Unwrap(rc_exit[p])))
               \/ Done(p) /\ recovery_runs[p] = 1 /\ rc_exit[p] = None
                    /\ result[p] = Some(Err("wait_err"))
               \/ Done(p) /\ recovery_runs[p] = 0 /\ rc_exit[p] = None
                    /\ result[p] \in {Some(Err("compose_err")),
                                      Some(Err("spawn_err"))}

\* a probe succeeded before the timeout and run returned the status 0 of
\* the recovery command
C5_Witness ==
    \E p \in Procs :
        /\ Returned(p, Ok(0))
        /\ Disconnected(p)
        /\ recovery_at[p] # None /\ Unwrap(recovery_at[p]) < Timeout(p)
        /\ rc_exit[p] = Some(0)

(***************************************************************************)
(* C6, as stated: after a disconnect, if no probe succeeds within the      *)
(* recovery timeout counted from the disconnect, the recovery command is   *)
(* never executed and the status run returns is 255.                       *)
(***************************************************************************)
C6_Original ==
    \A p \in Procs :
        (Done(p) /\ Disconnected(p)
            /\ ~(recovery_at[p] # None
                    /\ Unwrap(recovery_at[p]) <= Timeout(p))) =>
            /\ recovery_runs[p] = 0
            /\ IsOk(Unwrap(result[p])) => result[p] = Some(Ok(Disconnect))

(***************************************************************************)
(* C6, amended: after a disconnect, if every probe issued fails, run       *)
(* returns 255 at the first check that finds the time elapsed since the    *)
(* disconnect at or beyond the timeout, and the recovery command is never  *)
(* executed.  (A probe issued after a check that passed can succeed later  *)
(* than the timeout and still start the recovery command.)                 *)
(***************************************************************************)
C6_TimeoutReturns255 ==
    \A p \in Procs :
        (Done(p) /\ Disconnected(p) /\ recovery_at[p] = None) =>
            /\ result[p] = Some(Ok(Disconnect))
            /\ recovery_runs[p] = 0
            /\ rc_exit[p] = None
            /\ elapsed[p] >= Timeout(p)

\* probes were issued, all of them failed, and run returned 255
C6_Witness ==
    \E p \in Procs :
        /\ Returned(p, Ok(Disconnect))
        /\ Disconnected(p)
        /\ probe_at[p] # None /\ recovery_at[p] = None
        /\ recovery_runs[p] = 0

(***************************************************************************)
(* C7, as stated: a numeric status returned by run is the exit status of   *)
(* the primary command, the exit status of the recovery command, or 255    *)
(* after a reconnection timeout.                                           *)
(***************************************************************************)
IsPrimaryStatus(p) ==
    /\ primary_runs[p] = 1 /\ exit_code[p] # None
    /\ result[p] = Some(Ok(Unwrap(exit_code[p])))

IsRecoveryStatus(p) ==
    /\ recovery_runs[p] = 1 /\ rc_exit[p] # None
    /\ result[p] = Some(Ok(Unwrap(rc_exit[p])))

IsTimeoutStatus(p) ==
    /\ Disconnected(p) /\ recovery_at[p] = None
    /\ elapsed[p] >= Timeout(p)
    /\ result[p] = Some(Ok(Disconnect))

C7_Original ==
    \A p \in Procs :
        ReturnedOk(p) =>
            IsPrimaryStatus(p) \/ IsRecoveryStatus(p) \/ IsTimeoutStatus(p)

(***************************************************************************)
(* C7, amended: a numeric status returned by run is the exit status of the *)
(* primary command, the exit status of the recovery command, 255 after a   *)
(* reconnection timeout, or 0 in a dry run, where no command is executed.  *)
(***************************************************************************)
IsDryRunStatus(p) ==
    /\ args[p].dry_run
    /\ primary_runs[p] = 0 /\ exit_code[p] = None
    /\ result[p] = Some(Ok(0))

C7_StatusContract ==
    \A p \in Procs :
        ReturnedOk(p) =>
            \/ IsPrimaryStatus(p) /\ ~Disconnected(p)
            \/ IsRecoveryStatus(p)
            \/ IsTimeoutStatus(p)
            \/ IsDryRunStatus(p)

\* a dry run returned 0 without a primary command
C7_Witness ==
    \E p \in Procs : ReturnedOk(p) /\ IsDryRunStatus(p)

(***************************************************************************)
(* C8: after a disconnect the polling loop terminates, also when every     *)
(* probe fails: it ends by a successful probe or by returning 255.         *)
(***************************************************************************)
C8_PollingTerminates ==
    \A p \in Procs :
        Polling(p) ~> (recovery_at[p] # None \/ Returned(p, Ok(Disconnect)))

\* the loop is at its check after a failed probe, the timeout not reached
C8_Witness ==
    \E p \in Procs :
        /\ pc[p] = "poll_check"
        /\ probe_at[p] # None /\ recovery_at[p] = None
        /\ elapsed[p] < Timeout(p)

C10_LockTimeoutAfterFullWait ==
    \A p \in Procs :
        Returned(p, Err("lock_timeout")) =>
            /\ UsesLock(p)
            /\ waited[p] >= args[p].lock_timeout
            /\ acquired[p] = 0 /\ ~HoldsGuard(p)
            /\ primary_runs[p] = 0 /\ exit_code[p] = None
            /\ probe_at[p] = None
            /\ recovery_runs[p] = 0

\* the error was reported after polls that failed
C10_Witness ==
    \E p \in Procs :
        /\ Returned(p, Err("lock_timeout"))
        /\ args[p].lock_timeout > 0
        /\ waited[p] >= args[p].lock_timeout

(***************************************************************************)
(* C11: acquire_lock terminates, also when the holder never releases the   *)
(* lock: an invocation in the lock wait is eventually handed the guard or  *)
(* returns the timeout error.                                              *)
(***************************************************************************)
C11_LockWaitTerminates ==
    \A p \in Procs :
        InLockWait(p) ~>
            (acquired[p] = 1 \/ Returned(p, Err("lock_timeout")))

\* an invocation has polled without success while the holder of the lock is
\* still running its primary command
C11_Witness ==
    \E p, q \in Procs :
        /\ p # q /\ SamePair(p, q)
        /\ pc[p] = "lock_check" /\ waited[p] > 0
        /\ pc[q] = "primary" /\ HoldsGuard(q)

(***************************************************************************)
(* C12: two invocations under one hostname with different lock names do    *)
(* not block each other: their lock paths differ, so the first             *)
(* non-blocking attempt of one succeeds whether or not the other holds its *)
(* lock, and neither ever waits or times out because of the other.         *)
(***************************************************************************)
SameHostOtherName(p, q) ==
    /\ UsesLock(p) /\ UsesLock(q)
    /\ args[p].hostname = args[q].hostname
    /\ args[p].lock_name # args[q].lock_name

C12_LockNamesIndependent ==
    \A p, q \in Procs :
        (p # q /\ SameHostOtherName(p, q)) =>
            /\ LockPathOf(p) # LockPathOf(q)
            /\ (pc[p] = "acquire"
                   /\ \A r \in Procs \ {p, q} : ~HoldsGuard(r)) =>
                  try_lock_exclusive(LockPathOf(p))
            /\ Procs = {p, q} =>
                  /\ ~InLockWait(p)
                  /\ ~Returned(p, Err("lock_timeout"))

\* both invocations hold their guards at the same time
C12_Witness ==
    \E p, q \in Procs :
        /\ p # q /\ SameHostOtherName(p, q)
        /\ HoldsGuard(p) /\ HoldsGuard(q)
        /\ waited[p] = 0 /\ waited[q] = 0

(***************************************************************************)
(* C13: different (hostname, lockName) pairs are independent: an           *)
(* invocation waits for the lock, or times out, only while or after        *)
(* another invocation of the same pair has held it.                        *)
(***************************************************************************)
C13_PairsIndependent ==
    \A p \in Procs :
        (InLockWait(p) \/ Returned(p, Err("lock_timeout"))) =>
            \E q \in Procs \ {p} : SamePair(p, q) /\ acquired[q] = 1

(***************************************************************************)
(* Strings are sequences of characters; the str methods used by            *)
(* env_subst.rs and ssh.rs.                                                *)
(***************************************************************************)
first_of(S) == CHOOSE i \in S : \A j \in S : i <= j

\* str::find: position of the first occurrence of pat in s
find(s, pat) ==
    LET at == {i \in 1..(Len(s) - Len(pat) + 1) :
                   SubSeq(s, i, i + Len(pat) - 1) = pat}
    IN  IF at = {} THEN None ELSE Some(first_of(at))

\* str::contains
contains(s, pat) == find(s, pat) # None

\* str::replacen: the first `count` non-overlapping occurrences, left to right
RECURSIVE replacen(_, _, _, _)
replacen(s, from, to, count) ==
    IF count = 0 \/ find(s, from) = None
    THEN s
    ELSE LET i == Unwrap(find(s, from))
         IN  SubSeq(s, 1, i - 1) \o to
                 \o replacen(SubSeq(s, i + Len(from), Len(s)), from, to,
                             count - 1)

\* str::replace: every non-overlapping occurrence, left to right
replace(s, from, to) == replacen(s, from, to, Len(s))

\* ------------------------------------------------------------------------
\* env_subst.rs 28: the placeholder regex
\*     \$\{([A-Za-z_][A-Za-z0-9_]*)(?::-([^}]*))?\}
\* ------------------------------------------------------------------------
Upper == {"A", "B", "C", "D", "E", "F", "G", "H", "I", "J", "K", "L", "M",
          "N", "O", "P", "Q", "R", "S", "T", "U", "V", "W", "X", "Y", "Z"}
Lower == {"a", "b", "c", "d", "e", "f", "g", "h", "i", "j", "k", "l", "m",
          "n", "o", "p", "q", "r", "s", "t", "u", "v", "w", "x", "y", "z"}
Digit == {"0", "1", "2", "3", "4", "5", "6", "7", "8", "9"}
NameStart == Upper \cup Lower \cup {"_"}
NameChar == NameStart \cup Digit

\* last position of the longest run of name characters that starts at i
RECURSIVE name_end(_, _)
name_end(s, i) ==
    IF i <= Len(s) /\ s[i] \in NameChar THEN name_end(s, i + 1) ELSE i - 1

\* the regex anchored at position i: {} or {(full_match, var_name, default)}
captures_at(s, i) ==
    IF ~(i + 2 <= Len(s) /\ s[i] = "$" /\ s[i + 1] = "{"
            /\ s[i + 2] \in NameStart)
    THEN None
    ELSE LET e == name_end(s, i + 2)
             closing == {k \in (e + 3)..Len(s) : s[k] = "}"}
         IN  IF e + 1 <= Len(s) /\ s[e + 1] = "}"
             THEN Some([full_match |-> SubSeq(s, i, e + 1),
                        var_name |-> SubSeq(s, i + 2, e),
                        default |-> None])
             ELSE IF e + 2 <= Len(s) /\ s[e + 1] = ":" /\ s[e + 2] = "-"
                        /\ closing # {}
             THEN Some([full_match |-> SubSeq(s, i, first_of(closing)),
                        var_name |-> SubSeq(s, i + 2, e),
                        default |->
                            Some(SubSeq(s, e + 3, first_of(closing) - 1))])
             ELSE None

\* env_subst.rs 38-46: Regex::captures_iter, leftmost non-overlapping matches
RECURSIVE captures_from(_, _)
captures_from(s, i) ==
    IF i > Len(s)
    THEN <<>>
    ELSE IF captures_at(s, i) = None
    THEN captures_from(s, i + 1)
    ELSE <<Unwrap(captures_at(s, i))>>
             \o captures_from(s, i + Len(Unwrap(captures_at(s, i)).full_match))

captures_iter(s) == captures_from(s, 1)

(***************************************************************************)
(* env_subst.rs 23-82: substitute_env_vars.  `env` is the process          *)
(* environment read by env::var, `env_vars` the mapping loaded from files; *)
(* both map a name to {} (unset) or {value}.                               *)
(***************************************************************************)
NUL == "\\0"

\* env_subst.rs 34
escape_marker == <<NUL, "E", "S", "C", NUL>>

\* mutant: escaped sequences are not protected
protect_nothing(input) == input

\* env_subst.rs 35: result.replace("$${", escape_marker)
protect(input) == replace(input, <<"$", "$", "{">>, escape_marker)

\* env_subst.rs 69: result.replace(escape_marker, "${")
restore(text) == replace(text, escape_marker, <<"$", "{">>)

\* env::var(name).ok() and HashMap::get(name)
get(map, name) == IF name \in DOMAIN map THEN map[name] ELSE None

\* mutant: the file mapping is consulted before the process environment
lookup_file_first(sub, env, env_vars) ==
    IF get(env_vars, sub.var_name) # None THEN get(env_vars, sub.var_name)
    ELSE IF get(env, sub.var_name) # None THEN get(env, sub.var_name)
    ELSE sub.default

\* mutant: the inline default is not consulted
lookup_without_default(sub, env, env_vars) ==
    IF get(env, sub.var_name) # None THEN get(env, sub.var_name)
    ELSE get(env_vars, sub.var_name)

\* env_subst.rs 51-56: process environment, then env_vars, then default
lookup(sub, env, env_vars) ==
    IF get(env, sub.var_name) # None THEN get(env, sub.var_name)
    ELSE IF get(env_vars, sub.var_name) # None THEN get(env_vars, sub.var_name)
    ELSE sub.default

\* env_subst.rs 50-66: the loop over the collected substitutions
RECURSIVE apply_substitutions(_, _, _, _, _, _)
apply_substitutions(subs, text, missing_vars, strict, env, env_vars) ==
    IF subs = <<>>
    THEN [result |-> text, missing_vars |-> missing_vars]
    ELSE IF lookup(Head(subs), env, env_vars) = None /\ strict
    THEN apply_substitutions(Tail(subs), text,
                             Append(missing_vars, Head(subs).var_name),
                             strict, env, env_vars)
    ELSE apply_substitutions(
             Tail(subs),
             replacen(text, Head(subs).full_match,
                      unwrap_or(lookup(Head(subs), env, env_vars), <<>>), 1),
             missing_vars, strict, env, env_vars)

\* mutant: only the first missing variable is reported
missing_error_first(missing_vars) == Err(<<Head(missing_vars)>>)

\* env_subst.rs 73-78: bail!("Missing required environment variables: ..")
missing_error(missing_vars) == Err(missing_vars)

substitute_env_vars(input, strict, env, env_vars) ==
    LET protected == protect(input)
        applied == apply_substitutions(captures_iter(protected), protected,
                                       <<>>, strict, env, env_vars)
    IN  IF applied.missing_vars # <<>>
        THEN missing_error(applied.missing_vars)
        ELSE Ok(restore(applied.result))

(***************************************************************************)
(* Calls of substitute_env_vars: the input is a concatenation of at most   *)
(* MaxParts parts, over two variable names.                                *)
(***************************************************************************)
MaxParts == 3

VarNames == {<<"A">>, <<"B">>}

\* ${NAME}
Required(name) == <<"$", "{">> \o name \o <<"}">>

\* ${NAME:-default}
Optional(name, default) ==
    <<"$", "{">> \o name \o <<":", "-">> \o default \o <<"}">>

Parts ==
    { Required(<<"A">>), Required(<<"B">>),
      Optional(<<"A">>, <<"d">>), Optional(<<"B">>, <<>>),
      <<"x">>, <<"$">>, <<"}">>, escape_marker }

RECURSIVE Texts(_)
Texts(n) ==
    IF n = 0
    THEN {<<>>}
    ELSE Texts(n - 1) \cup {s \o q : s \in Texts(n - 1), q \in Parts}

\* env::var: A is unset, empty or "p"; B is unset or "q"
ProcessEnvs ==
    { [n \in VarNames |-> IF n = <<"A">> THEN a ELSE b] :
          a \in {None, Some(<<>>), Some(<<"p">>)},
          b \in {None, Some(<<"q">>)} }

\* the mapping loaded from env files: A is absent, "f", the text ${B} or the
\* text {}
FileVars ==
    { [n \in VarNames |-> IF n = <<"A">> THEN a ELSE None] :
          a \in {None, Some(<<"f">>), Some(Required(<<"B">>)),
                 Some(<<"{", "}">>)} }

SubstCalls ==
    [fn : {"substitute_env_vars"}, input : Texts(MaxParts),
     strict : BOOLEAN, env : ProcessEnvs, env_vars : FileVars]

SubstInit ==
    /\ Idle
    /\ call \in SubstCalls
    /\ ret = None
    /\ sent = <<>>

\* env_subst.rs 23-82: one call of substitute_env_vars
Substitute ==
    /\ call.fn = "substitute_env_vars"
    /\ ret = None
    /\ ret' = Some(substitute_env_vars(call.input, call.strict, call.env,
                                       call.env_vars))
    /\ UNCHANGED <<run_vars, call, sent>>

SubstNext == Substitute

SubstSpec == SubstInit /\ [][SubstNext]_vars

(***************************************************************************)
(* Vocabulary of the substitution claims.                                  *)
(***************************************************************************)
Substituted == call.fn = "substitute_env_vars" /\ ret # None

\* literal text around a placeholder
Plain == {<<>>, <<"x">>}

Defaults == {None, Some(<<>>), Some(<<"d">>)}

Placeholder(name, default) ==
    IF default = None THEN Required(name) ELSE Optional(name, Unwrap(default))

Range(seq) == {seq[i] : i \in DOMAIN seq}

DefinedNowhere(name) ==
    call.env[name] = None /\ call.env_vars[name] = None

(***************************************************************************)
(* C14: a placeholder resolves to the process environment value if set,    *)
(* else to the entry of the env_vars mapping, else to its inline default,  *)
(* else, in non-strict mode, to the empty string (and to an error in       *)
(* strict mode).                                                           *)
(***************************************************************************)
C14_Precedence ==
    \A name \in VarNames, default \in Defaults, l \in Plain, r \in Plain :
        (Substituted /\ call.input = l \o Placeholder(name, default) \o r) =>
            IF call.env[name] # None
            THEN ret = {Ok(l \o Unwrap(call.env[name]) \o r)}
            ELSE IF call.env_vars[name] # None
            THEN ret = {Ok(l \o Unwrap(call.env_vars[name]) \o r)}
            ELSE IF default # None
            THEN ret = {Ok(l \o Unwrap(default) \o r)}
            ELSE IF ~call.strict
            THEN ret = {Ok(l \o r)}
            ELSE ~IsOk(Unwrap(ret))

\* "${A}" with A=p in the process environment and A=f in the mapping is "p"
C14_Witness ==
    /\ Substituted
    /\ call.input = Required(<<"A">>)
    /\ call.env[<<"A">>] = Some(<<"p">>)
    /\ call.env_vars[<<"A">>] = Some(<<"f">>)
    /\ ret = {Ok(<<"p">>)}

(***************************************************************************)
(* C15: ${NAME:-default} with NAME defined nowhere is replaced by default  *)
(* and gives no error, strict or not; a placeholder that has a default is  *)
(* never the reason of a missing-variable error.                           *)
(***************************************************************************)
C15_DefaultUsed ==
    /\ \A name \in VarNames, default \in Defaults \ {None},
          l \in Plain, r \in Plain :
           (/\ Substituted
            /\ call.input = l \o Placeholder(name, default) \o r
            /\ DefinedNowhere(name)) =>
               ret = {Ok(l \o Unwrap(default) \o r)}
    /\ (Substituted /\ ~IsOk(Unwrap(ret))) =>
           \A name \in Range(Unwrap(ret).err) :
               \E c \in Range(captures_iter(protect(call.input))) :
                   c.var_name = name /\ c.default = None

\* strict mode, "${A:-d}", A defined nowhere: the result is "d"
C15_Witness ==
    /\ Substituted
    /\ call.strict
    /\ call.input = Optional(<<"A">>, <<"d">>)
    /\ DefinedNowhere(<<"A">>)
    /\ ret = {Ok(<<"d">>)}

(***************************************************************************)
(* C16: the escaped sequence $${X} comes out as the literal ${X}, whether  *)
(* X is defined or not, strict or not, and X is never reported missing.    *)
(***************************************************************************)
C16_EscapeLiteral ==
    \A name \in VarNames, l \in Plain, r \in Plain :
        (Substituted /\ call.input = l \o <<"$">> \o Required(name) \o r) =>
            ret = {Ok(l \o Required(name) \o r)}

\* strict mode, "$${A}", A defined nowhere
C16_Witness ==
    /\ Substituted
    /\ call.strict
    /\ call.input = <<"$">> \o Required(<<"A">>)
    /\ DefinedNowhere(<<"A">>)
    /\ ret = {Ok(Required(<<"A">>))}

(***************************************************************************)
(* C17: in strict mode, when placeholders without default are defined      *)
(* nowhere, the call returns one error that names each of them and no      *)
(* substituted string.                                                     *)
(***************************************************************************)
MissingRequired ==
    {c.var_name : c \in {d \in Range(captures_iter(protect(call.input))) :
                             d.default = None /\ DefinedNowhere(d.var_name)}}

C17_AllMissingNamed ==
    (Substituted /\ call.strict /\ MissingRequired # {}) =>
        /\ ~IsOk(Unwrap(ret))
        /\ Range(Unwrap(ret).err) = MissingRequired

\* "${A}${B}", strict, neither defined: the error names A and B
C17_Witness ==
    /\ Substituted
    /\ call.strict
    /\ call.input = Required(<<"A">>) \o Required(<<"B">>)
    /\ DefinedNowhere(<<"A">>) /\ DefinedNowhere(<<"B">>)
    /\ ret = {Err(<< <<"A">>, <<"B">> >>)}

(***************************************************************************)
(* C18: an input with no placeholder and no escaped $${ sequence is        *)
(* returned unchanged.                                                     *)
(***************************************************************************)
C18_Identity ==
    (/\ Substituted
     /\ captures_iter(call.input) = <<>>
     /\ ~contains(call.input, <<"$", "$", "{">>)) =>
        ret = {Ok(call.input)}

(***************************************************************************)
(* ssh.rs 17-48: run_remote_command up to the command line handed to the   *)
(* transport client, and apply_wrapper (ssh.rs 75-99).  An error carries   *)
(* the step that failed and the variables reported missing.                *)
(***************************************************************************)
token == <<"{", "}">>

\* .context("Failed to substitute environment variables in ..")?
with_context(r, context) ==
    IF IsOk(r) THEN r ELSE Err([context |-> context, missing |-> r.err])

\* ssh.rs 87-90: bail!("Wrapper template must contain '{}' placeholder ..")
wrapper_error == Err([context |-> "wrapper_template", missing |-> <<>>])

\* mutant: the wrapper is substituted before its token is looked for
apply_wrapper_late_validation(command, wrapper, strict_env, env, env_vars) ==
    IF wrapper = None
    THEN Ok(command)
    ELSE LET w == with_context(
                      substitute_env_vars(Unwrap(wrapper), strict_env, env,
                                          env_vars), "wrapper")
         IN  IF ~IsOk(w) THEN w
             ELSE IF ~contains(Unwrap(wrapper), token) THEN wrapper_error
             ELSE Ok(replace(w.ok, token, command))

\* ssh.rs 75-99
apply_wrapper(command, wrapper, strict_env, env, env_vars) ==
    IF wrapper = None
    THEN Ok(command)
    ELSE IF ~contains(Unwrap(wrapper), token)
    THEN wrapper_error
    ELSE LET w == with_context(
                      substitute_env_vars(Unwrap(wrapper), strict_env, env,
                                          env_vars), "wrapper")
         IN  IF ~IsOk(w) THEN w ELSE Ok(replace(w.ok, token, command))

\* mutant: double quotes are passed to powershell as they are
powershell_quote_none(wrapped_command) == wrapped_command

\* ssh.rs 41: wrapped_command.replace('"', r#"\""#)
powershell_quote(wrapped_command) ==
    replace(wrapped_command, <<"\"">>, <<"\\", "\"">>)

\* ssh.rs 45: remote_path.replace('/', "\\")
cmd_path(remote_path) == replace(remote_path, <<"/">>, <<"\\">>)

\* ssh.rs 36-48: let full_cmd = match shell { .. }
shell_command(shell, remote_path, wrapped_command) ==
    CASE shell = "Bash" ->
             <<"c", "d", " ", "\"">>
                 \o remote_path \o <<"\"", " ", "&", "&", " ">> \o wrapped_command
      [] shell = "Powershell" ->
             <<"p", "o", "w", "e", "r", "s", "h", "e", "l", "l", " ", "-",
                 "C", "o", "m", "m", "a", "n", "d", " ", "\"", "c", "d", " ",
                 "'">>
                 \o remote_path \o <<"'", ";", " ">>
                 \o powershell_quote(wrapped_command) \o <<"\"">>
      [] shell = "Cmd" ->
             <<"c", "d", " ", "/", "d", " ", "\"">>
                 \o cmd_path(remote_path) \o <<"\"", " ", "&", "&", " ">> \o wrapped_command

\* ssh.rs 28-48: the command line, or the error of the step that failed
full_cmd(remote_path, command, shell, wrapper, strict_env, env, env_vars) ==
    LET substituted == with_context(
                           substitute_env_vars(command, strict_env, env,
                                               env_vars), "command")
    IN  IF ~IsOk(substituted)
        THEN substituted
        ELSE LET wrapped_command ==
                     apply_wrapper(substituted.ok, wrapper, strict_env, env,
                                   env_vars)
             IN  IF ~IsOk(wrapped_command)
                 THEN wrapped_command
                 ELSE Ok(shell_command(shell, remote_path,
                                       wrapped_command.ok))

(***************************************************************************)
(* Calls of run_remote_command.                                            *)
(***************************************************************************)
Shells == {"Bash", "Powershell", "Cmd"}

SrvApp == <<"/", "s", "r", "v", "/", "a", "p", "p">>

RemotePaths == {SrvApp, <<"C", ":", "/", "w">>}

EchoHi == <<"e", "c", "h", "o", " ", "h", "i">>

Commands ==
    { EchoHi,
      <<"e", " ", "\"", "a", "\"", " ", "\"", "b", "\"">>,
      Required(<<"A">>),
      <<"e", " ", "$", "{", "B", ":", "-", "}">>,
      <<"\"", "\"">>,
      <<"a", "{", "}", "b">> }

Wrappers ==
    { None,
      Some(<<"w", " ", "{", "}">>),
      Some(<<"w", " ", "\"", "{", "}", "\"">>),
      Some(<<"w">>),
      Some(<<"w", " ">> \o Required(<<"A">>)),
      Some(Required(<<"A">>) \o <<" ">> \o token),
      Some(token \o <<";">> \o token) }

ComposeCalls ==
    [fn : {"run_remote_command"}, remote_path : RemotePaths,
     command : Commands, shell : Shells, wrapper : Wrappers,
     strict_env : BOOLEAN, env : ProcessEnvs, env_vars : FileVars]

ComposeInit ==
    /\ Idle
    /\ call \in ComposeCalls
    /\ ret = None
    /\ sent = <<>>

\* ssh.rs 28-48: one call of run_remote_command, up to full_cmd
Compose ==
    /\ call.fn = "run_remote_command"
    /\ ret = None
    /\ ret' = Some(full_cmd(call.remote_path, call.command, call.shell,
                            call.wrapper, call.strict_env, call.env,
                            call.env_vars))
    /\ UNCHANGED <<run_vars, call, sent>>

ComposeNext == Compose

ComposeSpec == ComposeInit /\ [][ComposeNext]_vars

(***************************************************************************)
(* Vocabulary of the composition claims.                                   *)
(***************************************************************************)
Composed == call.fn = "run_remote_command" /\ ret # None

HasToken(s) == \E i \in 1..(Len(s) - 1) : s[i] = "{" /\ s[i + 1] = "}"

LacksToken == call.wrapper # None /\ ~HasToken(Unwrap(call.wrapper))

SubstitutedCommand ==
    substitute_env_vars(call.command, call.strict_env, call.env,
                        call.env_vars)

SubstitutedWrapper ==
    substitute_env_vars(Unwrap(call.wrapper), call.strict_env, call.env,
                        call.env_vars)

(***************************************************************************)
(* C19 as stated: with a wrapper that lacks the {} token, composition      *)
(* fails with the wrapper configuration error before any substitution,     *)
(* also when the command has a placeholder missing under strict mode.      *)
(***************************************************************************)
C19_Original ==
    (Composed /\ LacksToken) => ret = {wrapper_error}

(***************************************************************************)
(* C19 amended: with a wrapper that lacks the {} token, composition never  *)
(* yields a command.  The command is substituted first, and its            *)
(* substitution error, if any, is the outcome; otherwise the outcome is    *)
(* the wrapper configuration error, raised before the wrapper is           *)
(* substituted, also when the wrapper has a placeholder missing under      *)
(* strict mode.                                                            *)
(***************************************************************************)
C19_WrapperValidation ==
    (Composed /\ LacksToken) =>
        IF IsOk(SubstitutedCommand)
        THEN ret = {wrapper_error}
        ELSE ret = {Err([context |-> "command",
                         missing |-> SubstitutedCommand.err])}

\* the command substitutes, the wrapper has no token and a placeholder that
\* is missing under strict mode: the wrapper configuration error is returned
C19_Witness ==
    /\ Composed /\ LacksToken
    /\ IsOk(SubstitutedCommand)
    /\ ~IsOk(SubstitutedWrapper)
    /\ ret = {wrapper_error}

(***************************************************************************)
(* C20: the composed command is the wrapped command behind the directory   *)
(* change of the shell kind: bash `cd "<path>" && <cmd>`, powershell       *)
(* `powershell -Command "cd '<path>'; <cmd>"` with each double quote of    *)
(* <cmd> preceded by a backslash, cmd `cd /d "<path>" && <cmd>` with each  *)
(* '/' of the path turned into '\'.                                        *)
(***************************************************************************)
RECURSIVE EachChar(_, _, _)
EachChar(s, ch, to) ==
    IF s = <<>>
    THEN <<>>
    ELSE (IF Head(s) = ch THEN to ELSE <<Head(s)>>)
             \o EachChar(Tail(s), ch, to)

WrappedCommand ==
    apply_wrapper(SubstitutedCommand.ok, call.wrapper, call.strict_env,
                  call.env, call.env_vars).ok

C20_ShellPrefix ==
    /\ (Composed /\ IsOk(Unwrap(ret))) =>
           Unwrap(ret).ok =
               CASE call.shell = "Bash" ->
                        <<"c", "d", " ", "\"">>
                            \o call.remote_path \o <<"\"", " ", "&", "&",
                                                       " ">>
                            \o WrappedCommand
                 [] call.shell = "Powershell" ->
                        <<"p", "o", "w", "e", "r", "s", "h", "e", "l", "l",
                            " ", "-", "C", "o", "m", "m", "a", "n", "d", " ",
                            "\"", "c", "d", " ", "'">>
                            \o call.remote_path \o <<"'", ";", " ">>
                            \o EachChar(WrappedCommand, "\"", <<"\\", "\"">>)
                            \o <<"\"">>
                 [] call.shell = "Cmd" ->
                        <<"c", "d", " ", "/", "d", " ", "\"">>
                            \o EachChar(call.remote_path, "/", <<"\\">>)
                            \o <<"\"", " ", "&", "&", " ">> \o WrappedCommand
    /\ (/\ Composed /\ call.shell = "Bash" /\ call.remote_path = SrvApp
        /\ call.command = EchoHi /\ call.wrapper = None) =>
           ret = {Ok(<<"c", "d", " ", "\"", "/", "s", "r", "v", "/", "a",
                         "p", "p", "\"", " ", "&", "&", " ", "e", "c", "h",
                         "o", " ", "h", "i">>)}

\* powershell, a command with double quotes, a path with '/': the quotes
\* are escaped
C20_Witness ==
    /\ Composed
    /\ call.shell = "Powershell"
    /\ call.wrapper = None
    /\ call.remote_path = SrvApp
    /\ call.command = <<"e", " ", "\"", "a", "\"", " ", "\"", "b", "\"">>
    /\ ret = {Ok(<<"p", "o", "w", "e", "r", "s", "h", "e", "l", "l", " ",
                     "-", "C", "o", "m", "m", "a", "n", "d", " ", "\"", "c",
                     "d", " ", "'", "/", "s", "r", "v", "/", "a", "p", "p",
                     "'", ";", " ", "e", " ", "\\", "\"", "a", "\\", "\"",
                     " ", "\\", "\"", "b", "\\", "\"", "\"">>)}

(***************************************************************************)
(* run.rs 35-49, 69-75: the command line overrides against the host        *)
(* profile.  Both invocations are given the same raw inputs, in which an   *)
(* override never has the value of the setting it overrides.               *)
(***************************************************************************)
CliLockName == <<"k">>

CliReconnectCmd == <<"o", "c">>

RawInputs ==
    [ hostname : {<<"h">>},
      host_lock : {Off, Default, Named(OtherLockName)},
      host_lock_timeout : {LockPollInterval + 1},
      host_reconnect_command : {None, Some(ReconnectCmd)},
      host_reconnect_timeout : {PollInterval + 2},
      lock_override : {None, Some(DefaultLockName), Some(CliLockName)},
      lock_timeout_override : {None, Some(0)},
      reconnect_command_override : {None, Some(CliReconnectCmd)},
      reconnect_timeout_override : {None, Some(0)},
      do_sync : BOOLEAN,
      dry_run : BOOLEAN ]

ResolveInit ==
    /\ Idle
    /\ call \in [fn : {"run"}, in : RawInputs]
    /\ ret = None
    /\ sent = <<>>

\* run.rs 12-22: run() is called with the raw inputs under analysis
InvokeWith(p) ==
    /\ pc[p] = "idle"
    /\ call.fn = "run"
    /\ args' = [args EXCEPT ![p] = Settings(call.in)]
    /\ pc' = [pc EXCEPT ![p] = IF call.in.do_sync THEN "sync" ELSE "load"]
    /\ UNCHANGED <<call, ret, sent, guard, waited, exit_code, elapsed, result,
                   acquired, released, primary_runs, recovery_runs, rc_exit,
                   passed_at, probe_at, recovery_at>>

ResolveNext ==
    \E p \in Procs :
        \/ InvokeWith(p)
        \/ Sync(p)
        \/ Load(p)
        \/ AcquireLock(p)
        \/ LockCheck(p)
        \/ LockPoll(p)
        \/ StartPrimary(p)
        \/ PrimaryExit(p)
        \/ PollCheck(p)
        \/ Probe(p)
        \/ RecoveryExit(p)

ResolveSpec == ResolveInit /\ [][ResolveNext]_vars

(***************************************************************************)
(* C21: recovery command, recovery timeout, lock name and lock timeout     *)
(* used by run are the command line override when given, else the host     *)
(* profile's value; without a lock override, lock off acquires no lock,    *)
(* lock true locks under the name "default", a string under that name.     *)
(***************************************************************************)
C21_OverridesWin ==
    \A p \in Procs :
        (call.fn = "run" /\ Invoked(p)) =>
            /\ call.in.reconnect_command_override # None =>
                   args[p].reconnect_command
                       = call.in.reconnect_command_override
            /\ call.in.reconnect_command_override = None =>
                   args[p].reconnect_command = call.in.host_reconnect_command
            /\ call.in.reconnect_timeout_override # None =>
                   args[p].reconnect_timeout
                       = Unwrap(call.in.reconnect_timeout_override)
            /\ call.in.reconnect_timeout_override = None =>
                   args[p].reconnect_timeout = call.in.host_reconnect_timeout
            /\ call.in.lock_timeout_override # None =>
                   args[p].lock_timeout
                       = Unwrap(call.in.lock_timeout_override)
            /\ call.in.lock_timeout_override = None =>
                   args[p].lock_timeout = call.in.host_lock_timeout
            /\ call.in.lock_override # None =>
                   /\ args[p].lock_name = call.in.lock_override
                   /\ guard[p] \in
                          {None, Some(lock_path(call.in.hostname,
                                                Unwrap(call.in.lock_override)))}
            /\ (call.in.lock_override = None /\ call.in.host_lock = Off) =>
                   /\ args[p].lock_name = None
                   /\ guard[p] = None /\ acquired[p] = 0
                   /\ ~InLockWait(p)
            /\ (call.in.lock_override = None
                   /\ call.in.host_lock = Default) =>
                   /\ args[p].lock_name = Some(DefaultLockName)
                   /\ guard[p] \in
                          {None, Some(lock_path(call.in.hostname,
                                                DefaultLockName))}
            /\ (call.in.lock_override = None
                   /\ call.in.host_lock.kind = "Named") =>
                   /\ args[p].lock_name = Some(call.in.host_lock.name)
                   /\ guard[p] \in
                          {None, Some(lock_path(call.in.hostname,
                                                call.in.host_lock.name))}

\* a lock name given on the command line is used although the host profile
\* names another lock, and the invocation times out on the recovery timeout
\* given on the command line
C21_Witness ==
    \E p \in Procs :
        /\ call.fn = "run"
        /\ call.in.lock_override = Some(CliLockName)
        /\ call.in.host_lock = Named(OtherLockName)
        /\ call.in.reconnect_timeout_override = Some(0)
        /\ acquired[p] = 1
        /\ released[p] = 1
        /\ IsTimeoutStatus(p)

(***************************************************************************)
(* C22: a failure to spawn or to wait for the transport client makes run   *)
(* return an error; an exit status, zero or not, of the primary command    *)
(* (when no recovery follows it) or of the recovery command is returned as *)
(* a number.  A number is never returned for a client that was not spawned *)
(* or not waited for, and a spawn or wait error is never returned for a    *)
(* command that produced a status.                                         *)
(***************************************************************************)
SpawnFailed(p) ==
    \/ primary_runs[p] = 0
    \/ Disconnected(p) /\ recovery_at[p] # None /\ recovery_runs[p] = 0

WaitFailed(p) ==
    \/ primary_runs[p] = 1 /\ exit_code[p] = None
    \/ recovery_runs[p] = 1 /\ rc_exit[p] = None

C22_SpawnErrorIsNotStatus ==
    \A p \in Procs :
        Done(p) =>
            /\ (exit_code[p] # None /\ ~Disconnected(p)) =>
                   result[p] = Some(Ok(Unwrap(exit_code[p])))
            /\ rc_exit[p] # None =>
                   result[p] = Some(Ok(Unwrap(rc_exit[p])))
            /\ result[p] = Some(Err("spawn_err")) => SpawnFailed(p)
            /\ result[p] = Some(Err("wait_err")) => WaitFailed(p)
            /\ (ReturnedOk(p) /\ ~args[p].dry_run) =>
                   /\ primary_runs[p] = 1 /\ exit_code[p] # None
                   /\ recovery_at[p] # None =>
                          recovery_runs[p] = 1 /\ rc_exit[p] # None

\* one invocation returns the status 255 of its primary command as a number,
\* another returns the error of a recovery command that could not be spawned
C22_Witness ==
    \E p, q \in Procs :
        /\ Returned(p, Ok(Disconnect))
        /\ args[p].reconnect_command = None
        /\ exit_code[p] = Some(Disconnect)
        /\ Returned(q, Err("spawn_err"))
        /\ recovery_at[q] # None

(***************************************************************************)
(* env_loader.rs 15-107: load_env_files.  A file is {} (missing) or        *)
(* {its lines}; a line is taken as already split at its first '=' into key *)
(* and value.  A HashMap is a function over the keys it holds.             *)
(***************************************************************************)
DEFAULT_ENV_FILE == <<".", "e", "n", "v">>

\* HashMap::new()
EmptyMap == [k \in {} |-> <<>>]

\* HashMap::insert
insert(map, key, value) ==
    [k \in DOMAIN map \cup {key} |-> IF k = key THEN value ELSE map[k]]

\* mutant: entries already in the map are kept
extend_keep_existing(map, loaded) ==
    [k \in DOMAIN map \cup DOMAIN loaded |->
        IF k \in DOMAIN map THEN map[k] ELSE loaded[k]]

\* HashMap::extend: entries of `loaded` replace those of map
extend(map, loaded) ==
    [k \in DOMAIN map \cup DOMAIN loaded |->
        IF k \in DOMAIN loaded THEN loaded[k] ELSE map[k]]

\* env_loader.rs 95-107
is_valid_env_key(key) ==
    /\ key # <<>>
    /\ key[1] \in Upper \cup Lower \cup {"_"}
    /\ \A i \in 2..Len(key) : key[i] \in Upper \cup Lower \cup Digit \cup {"_"}

\* env_loader.rs 56-91: the loop over the lines of one file
RECURSIVE parse_lines(_, _)
parse_lines(lines, loaded) ==
    IF lines = <<>>
    THEN Ok(loaded)
    ELSE IF ~is_valid_env_key(Head(lines).key)
    THEN Err("invalid_key")
    ELSE parse_lines(Tail(lines),
                     insert(loaded, Head(lines).key, Head(lines).value))

\* Path::exists
exists(files, path) == files[path] # None

\* env_loader.rs 52-92, with the context added at lines 22 and 36
parse_env_file(files, path) ==
    IF IsOk(parse_lines(Unwrap(files[path]), EmptyMap))
    THEN parse_lines(Unwrap(files[path]), EmptyMap)
    ELSE Err([kind |-> "parse", file |-> path])

\* env_loader.rs 27-40: the loop over additional_files
RECURSIVE load_additional(_, _, _)
load_additional(files, additional_files, env_vars) ==
    IF additional_files = <<>>
    THEN Ok(env_vars)
    ELSE IF ~exists(files, Head(additional_files))
    THEN Err([kind |-> "not_found", file |-> Head(additional_files)])
    ELSE IF ~IsOk(parse_env_file(files, Head(additional_files)))
    THEN parse_env_file(files, Head(additional_files))
    ELSE load_additional(
             files, Tail(additional_files),
             extend(env_vars,
                    parse_env_file(files, Head(additional_files)).ok))

\* env_loader.rs 15-41
load_env_files(files, additional_files) ==
    IF ~exists(files, DEFAULT_ENV_FILE)
    THEN load_additional(files, additional_files, EmptyMap)
    ELSE IF ~IsOk(parse_env_file(files, DEFAULT_ENV_FILE))
    THEN parse_env_file(files, DEFAULT_ENV_FILE)
    ELSE load_additional(
             files, additional_files,
             extend(EmptyMap, parse_env_file(files, DEFAULT_ENV_FILE).ok))

(***************************************************************************)
(* Calls of load_env_files: three file names, at most MaxFiles additional  *)
(* files.                                                                  *)
(***************************************************************************)
MaxFiles == 2

FileNames == {DEFAULT_ENV_FILE, <<"a">>, <<"b">>}

Line(key, value) == [key |-> key, value |-> value]

\* a line whose key is not a variable name
BadLine == Line(<<"1">>, <<"x">>)

FileContents ==
    { <<>>,
      <<Line(<<"A">>, <<"1">>)>>,
      <<Line(<<"A">>, <<"2">>)>>,
      <<Line(<<"A">>, <<"1">>), Line(<<"A">>, <<"2">>)>>,
      <<Line(<<"B">>, <<"3">>)>>,
      <<Line(<<"A">>, <<"2">>), Line(<<"B">>, <<"3">>)>>,
      <<BadLine>> }

FileLists ==
    UNION {[1..n -> FileNames] : n \in 0..MaxFiles}

LoadCalls ==
    [fn : {"load_env_files"},
     files : [FileNames -> {None} \cup {Some(c) : c \in FileContents}],
     additional_files : FileLists]

LoadInit ==
    /\ Idle
    /\ call \in LoadCalls
    /\ ret = None
    /\ sent = <<>>

\* env_loader.rs 15-41: one call of load_env_files
LoadEnvFiles ==
    /\ call.fn = "load_env_files"
    /\ ret = None
    /\ ret' = Some(load_env_files(call.files, call.additional_files))
    /\ UNCHANGED <<run_vars, call, sent>>

LoadNext == LoadEnvFiles

LoadSpec == LoadInit /\ [][LoadNext]_vars

(***************************************************************************)
(* C23: the default file, when present, is merged first and the additional *)
(* files after it in list order; for each key the last file that defines   *)
(* it gives the value and keys of earlier files are kept.  A missing       *)
(* default file is skipped; a missing additional file makes the call fail  *)
(* with an error that names the file, and no mapping is returned.          *)
(***************************************************************************)
LoadedFiles == call.fn = "load_env_files" /\ ret # None

\* the files read, in order
SourceFiles ==
    (IF call.files[DEFAULT_ENV_FILE] = None
     THEN <<>> ELSE <<DEFAULT_ENV_FILE>>) \o call.additional_files

MissingAt ==
    {i \in DOMAIN call.additional_files :
         call.files[call.additional_files[i]] = None}

Readable(path) ==
    /\ call.files[path] # None
    /\ \A i \in DOMAIN Unwrap(call.files[path]) :
           Unwrap(call.files[path])[i] # BadLine

\* the lines of the readable files in reading order
RECURSIVE LinesOf(_)
LinesOf(paths) ==
    IF paths = <<>>
    THEN <<>>
    ELSE Unwrap(call.files[Head(paths)]) \o LinesOf(Tail(paths))

LastValue(lines, key) ==
    lines[CHOOSE i \in DOMAIN lines :
              /\ lines[i].key = key
              /\ \A j \in DOMAIN lines : lines[j].key = key => j <= i].value

C23_MergeOrder ==
    LoadedFiles =>
        /\ MissingAt # {} => ~IsOk(Unwrap(ret))
        /\ (/\ MissingAt # {}
            /\ \A i \in 1..(first_of(MissingAt) - 1) :
                   Readable(call.additional_files[i])
            /\ call.files[DEFAULT_ENV_FILE] # None =>
                   Readable(DEFAULT_ENV_FILE)) =>
               ret = {Err([kind |-> "not_found",
                           file |->
                               call.additional_files[first_of(MissingAt)]])}
        /\ (\A i \in DOMAIN SourceFiles : Readable(SourceFiles[i])) =>
               /\ IsOk(Unwrap(ret))
               /\ DOMAIN Unwrap(ret).ok
                      = {l.key : l \in Range(LinesOf(SourceFiles))}
               /\ \A k \in DOMAIN Unwrap(ret).ok :
                      Unwrap(ret).ok[k] = LastValue(LinesOf(SourceFiles), k)

\* no default file; "a" defines A and B, "b" after it defines A again: A is
\* taken from "b", B is kept from "a"
C23_Witness ==
    /\ LoadedFiles
    /\ call.files[DEFAULT_ENV_FILE] = None
    /\ call.additional_files = << <<"a">>, <<"b">> >>
    /\ call.files[<<"a">>]
           = Some(<<Line(<<"A">>, <<"2">>), Line(<<"B">>, <<"3">>)>>)
    /\ call.files[<<"b">>] = Some(<<Line(<<"A">>, <<"1">>)>>)
    /\ IsOk(Unwrap(ret))
    /\ Unwrap(ret).ok[<<"A">>] = <<"1">>
    /\ Unwrap(ret).ok[<<"B">>] = <<"3">>

(***************************************************************************)
(* C24: all placeholders are resolved in one pass: the result is the input *)
(* with each placeholder replaced, at its own position, by its resolved    *)
(* value and each escaped $${ turned into ${; text brought in by a value   *)
(* is not substituted and does not take the replacement of a later         *)
(* placeholder.  (Inputs that hold the marker text are the case of C18.)   *)
(***************************************************************************)
Resolved(c) ==
    IF call.env[c.var_name] # None THEN Unwrap(call.env[c.var_name])
    ELSE IF call.env_vars[c.var_name] # None
    THEN Unwrap(call.env_vars[c.var_name])
    ELSE IF c.default # None THEN Unwrap(c.default)
    ELSE <<>>

\* the input rewritten from position i on, each item at its own position
RECURSIVE OnePass(_, _)
OnePass(s, i) ==
    IF i > Len(s)
    THEN <<>>
    ELSE IF i + 2 <= Len(s) /\ SubSeq(s, i, i + 2) = <<"$", "$", "{">>
    THEN <<"$", "{">> \o OnePass(s, i + 3)
    ELSE IF captures_at(s, i) # None
    THEN Resolved(Unwrap(captures_at(s, i)))
             \o OnePass(s, i + Len(Unwrap(captures_at(s, i)).full_match))
    ELSE <<s[i]>> \o OnePass(s, i + 1)

C24_OnePass ==
    (/\ Substituted
     /\ IsOk(Unwrap(ret))
     /\ ~contains(call.input, escape_marker)) =>
        Unwrap(ret).ok = OnePass(call.input, 1)

(***************************************************************************)
(* C25: with a wrapper that has a single {} token, the wrapped command is  *)
(* the substituted wrapper with that token replaced by the substituted     *)
(* command: the text before and after the token is the substituted text of *)
(* the template before and after its token, and the command stands once    *)
(* between them, not substituted again.                                    *)
(***************************************************************************)
TokensAt(s) == {i \in 1..(Len(s) - 1) : s[i] = "{" /\ s[i + 1] = "}"}

SubstitutedText(s) ==
    substitute_env_vars(s, call.strict_env, call.env, call.env_vars).ok

C25_InsertedOnce ==
    (/\ Composed
     /\ IsOk(Unwrap(ret))
     /\ call.wrapper # None
     /\ Cardinality(TokensAt(Unwrap(call.wrapper))) = 1) =>
        LET template == Unwrap(call.wrapper)
            i == first_of(TokensAt(template))
        IN  WrappedCommand
                = SubstitutedText(SubSeq(template, 1, i - 1))
                      \o SubstitutedCommand.ok
                      \o SubstitutedText(SubSeq(template, i + 2,
                                                Len(template)))

(***************************************************************************)
(* run() with the command lines it composes: one invocation of a host     *)
(* profile, a command and an optional recovery command.  No other          *)
(* invocation runs, so a configured lock is free at the first claim.       *)
(* run() returns Err("compose_err") when run_remote_command fails before   *)
(* the spawn; `ret` keeps the error with its context and variable names.   *)
(***************************************************************************)
RecoveryCommands ==
    { ReconnectCmd,
      <<"r", " ">> \o Required(<<"A">>),
      <<"r", " ">> \o Required(<<"B">>) }

ExecCommands == {EchoHi, <<"e", " ">> \o Required(<<"A">>)}

ExecWrappers == {None, Some(<<"w", " ", "{", "}">>), Some(<<"w">>)}

HostProfiles ==
    [ hostname : {<<"h">>}, path : {SrvApp}, shell : Shells,
      wrapper : ExecWrappers, strict_env : BOOLEAN,
      reconnect_command : {None} \cup {Some(c) : c \in RecoveryCommands},
      reconnect_timeout : {PollInterval + 2},
      lock : {Off, Default}, lock_timeout : {LockPollInterval + 1} ]

ExecFileVars ==
    { [n \in VarNames |-> IF n = <<"A">> THEN a ELSE None] :
          a \in {None, Some(<<"f">>)} }

ExecCalls ==
    [ fn : {"exec"}, host : HostProfiles, command : ExecCommands,
      do_sync : BOOLEAN, dry_run : BOOLEAN,
      env : ProcessEnvs, env_vars : ExecFileVars ]

ExecInit ==
    /\ Idle
    /\ call \in ExecCalls
    /\ ret = None
    /\ sent = <<>>

\* run.rs 12-49: run() is called once, for the host profile under analysis
ExecInvoke(p) ==
    /\ call.fn = "exec"
    /\ \A q \in Procs : pc[q] = "idle"
    /\ args' = [args EXCEPT ![p] =
                   [ hostname |-> call.host.hostname,
                     lock_name |-> ResolveLockName(None, call.host.lock),
                     lock_timeout |->
                         ResolveLockTimeout(None, call.host.lock_timeout),
                     reconnect_command |->
                         ResolveReconnectCommand(None,
                                                 call.host.reconnect_command),
                     reconnect_timeout |->
                         ResolveReconnectTimeout(None,
                                                 call.host.reconnect_timeout),
                     dry_run |-> call.dry_run ]]
    /\ pc' = [pc EXCEPT ![p] = IF call.do_sync THEN "sync" ELSE "load"]
    /\ UNCHANGED <<call, ret, sent, guard, waited, exit_code, elapsed, result,
                   acquired, released, primary_runs, recovery_runs, rc_exit,
                   passed_at, probe_at, recovery_at>>

\* ssh.rs 28-48: the command line run_remote_command composes for `command`
\* under the host profile (run.rs 82-91 and 115-124 pass the same host
\* fields and the same env_vars)
composed_line(host, command, env, env_vars) ==
    full_cmd(host.path, command, host.shell, host.wrapper, host.strict_env,
             env, env_vars)

\* ssh.rs 57-63: what Command::new("ssh") is given
ssh_args(hostname, line) == [hostname |-> hostname, full_cmd |-> line]

\* mutant: a failed composition is not noticed, the command text is handed
\* over as it is
ExecStartPrimary_unchecked(p) ==
    /\ pc[p] = "guarded"
    /\ IF args[p].dry_run
       THEN Return(p, Ok(0)) /\ UNCHANGED <<primary_runs, sent, ret>>
       ELSE LET c == composed_line(call.host, call.command, call.env,
                                   call.env_vars)
            IN  \E spawned \in BOOLEAN :
                        IF spawned
                        THEN /\ pc' = [pc EXCEPT ![p] = "primary"]
                             /\ primary_runs' =
                                    [primary_runs EXCEPT ![p] = @ + 1]
                             /\ sent' = Append(sent,
                                    ssh_args(call.host.hostname,
                                        IF IsOk(c) THEN c.ok
                                        ELSE call.command))
                             /\ UNCHANGED <<result, guard, released, ret>>
                        ELSE /\ Return(p, Err("spawn_err"))
                             /\ UNCHANGED <<primary_runs, sent, ret>>
    /\ waited' = [waited EXCEPT ![p] = 0]
    /\ UNCHANGED <<call, args, exit_code, elapsed, acquired,
                   recovery_runs, rc_exit, passed_at, probe_at, recovery_at>>

\* mutant: the recovery command is composed together with the primary one,
\* before anything is run
ExecStartPrimary_eager_recovery(p) ==
    /\ pc[p] = "guarded"
    /\ IF args[p].dry_run
       THEN Return(p, Ok(0)) /\ UNCHANGED <<primary_runs, sent, ret>>
       ELSE LET c == composed_line(call.host, call.command, call.env,
                                   call.env_vars)
                rc == IF args[p].reconnect_command = None
                      THEN c
                      ELSE composed_line(call.host,
                               Unwrap(args[p].reconnect_command),
                               call.env, call.env_vars)
            IN  IF ~IsOk(c) \/ ~IsOk(rc)
                THEN /\ Return(p, Err("compose_err"))
                     /\ ret' = Some(IF ~IsOk(c) THEN c ELSE rc)
                     /\ UNCHANGED <<primary_runs, sent>>
                ELSE \E spawned \in BOOLEAN :
                        IF spawned
                        THEN /\ pc' = [pc EXCEPT ![p] = "primary"]
                             /\ primary_runs' =
                                    [primary_runs EXCEPT ![p] = @ + 1]
                             /\ sent' = Append(sent,
                                    ssh_args(call.host.hostname, c.ok))
                             /\ UNCHANGED <<result, guard, released, ret>>
                        ELSE /\ Return(p, Err("spawn_err"))
                             /\ UNCHANGED <<primary_runs, sent, ret>>
    /\ waited' = [waited EXCEPT ![p] = 0]
    /\ UNCHANGED <<call, args, exit_code, elapsed, acquired,
                   recovery_runs, rc_exit, passed_at, probe_at, recovery_at>>

\* run.rs 77-91 and ssh.rs 28-67: dry run, or compose and spawn the primary
ExecStartPrimary(p) ==
    /\ pc[p] = "guarded"
    /\ IF args[p].dry_run
       THEN Return(p, Ok(0)) /\ UNCHANGED <<primary_runs, sent, ret>>
       ELSE LET c == composed_line(call.host, call.command, call.env,
                                   call.env_vars)
            IN  IF ~IsOk(c)
                THEN /\ Return(p, Err("compose_err"))
                     /\ ret' = Some(c)
                     /\ UNCHANGED <<primary_runs, sent>>
                ELSE \E spawned \in BOOLEAN :
                        IF spawned
                        THEN /\ pc' = [pc EXCEPT ![p] = "primary"]
                             /\ primary_runs' =
                                    [primary_runs EXCEPT ![p] = @ + 1]
                             /\ sent' = Append(sent,
                                    ssh_args(call.host.hostname, c.ok))
                             /\ UNCHANGED <<result, guard, released, ret>>
                        ELSE /\ Return(p, Err("spawn_err"))
                             /\ UNCHANGED <<primary_runs, sent, ret>>
    /\ waited' = [waited EXCEPT ![p] = 0]
    /\ UNCHANGED <<call, args, exit_code, elapsed, acquired,
                   recovery_runs, rc_exit, passed_at, probe_at, recovery_at>>

\* mutant: the recovery command is handed over without the host's wrapper
ExecProbe_no_wrapper(p) ==
    /\ pc[p] = "poll_sleep"
    /\ \E j \in 0..MaxJitter, reachable \in BOOLEAN :
          /\ elapsed' = [elapsed EXCEPT ![p] = AfterPollSleep(@, j)]
          /\ probe_at' = [probe_at EXCEPT ![p] = Some(elapsed'[p])]
          /\ IF ~reachable
             THEN /\ pc' = [pc EXCEPT ![p] = "poll_check"]
                  /\ UNCHANGED <<result, guard, released, recovery_at,
                                 recovery_runs, sent, ret>>
             ELSE /\ recovery_at' = [recovery_at EXCEPT ![p] = Some(elapsed'[p])]
                  /\ LET c == composed_line(
                                  [call.host EXCEPT !.wrapper = None],
                                  Unwrap(args[p].reconnect_command),
                                  call.env, call.env_vars)
                     IN  IF ~IsOk(c)
                         THEN /\ Return(p, Err("compose_err"))
                              /\ ret' = Some(c)
                              /\ UNCHANGED <<recovery_runs, sent>>
                         ELSE \E spawned \in BOOLEAN :
                                 IF spawned
                                 THEN /\ pc' = [pc EXCEPT ![p] = "recovery"]
                                      /\ recovery_runs' =
                                             [recovery_runs EXCEPT ![p] = @ + 1]
                                      /\ sent' = Append(sent,
                                             ssh_args(call.host.hostname, c.ok))
                                      /\ UNCHANGED <<result, guard, released, ret>>
                                 ELSE /\ Return(p, Err("spawn_err"))
                                      /\ UNCHANGED <<recovery_runs, sent, ret>>
    /\ UNCHANGED <<call, args, waited, exit_code, acquired, primary_runs,
                   rc_exit, passed_at>>

\* run.rs 108-124 and ssh.rs 28-67: sleep, check_connection, and on success
\* compose and spawn the recovery command
ExecProbe(p) ==
    /\ pc[p] = "poll_sleep"
    /\ \E j \in 0..MaxJitter, reachable \in BOOLEAN :
          /\ elapsed' = [elapsed EXCEPT ![p] = AfterPollSleep(@, j)]
          /\ probe_at' = [probe_at EXCEPT ![p] = Some(elapsed'[p])]
          /\ IF ~reachable
             THEN /\ pc' = [pc EXCEPT ![p] = "poll_check"]
                  /\ UNCHANGED <<result, guard, released, recovery_at,
                                 recovery_runs, sent, ret>>
             ELSE /\ recovery_at' = [recovery_at EXCEPT ![p] = Some(elapsed'[p])]
                  /\ LET c == composed_line(call.host,
                                  Unwrap(args[p].reconnect_command),
                                  call.env, call.env_vars)
                     IN  IF ~IsOk(c)
                         THEN /\ Return(p, Err("compose_err"))
                              /\ ret' = Some(c)
                              /\ UNCHANGED <<recovery_runs, sent>>
                         ELSE \E spawned \in BOOLEAN :
                                 IF spawned
                                 THEN /\ pc' = [pc EXCEPT ![p] = "recovery"]
                                      /\ recovery_runs' =
                                             [recovery_runs EXCEPT ![p] = @ + 1]
                                      /\ sent' = Append(sent,
                                             ssh_args(call.host.hostname, c.ok))
                                      /\ UNCHANGED <<result, guard, released, ret>>
                                 ELSE /\ Return(p, Err("spawn_err"))
                                      /\ UNCHANGED <<recovery_runs, sent, ret>>
    /\ UNCHANGED <<call, args, waited, exit_code, acquired, primary_runs,
                   rc_exit, passed_at>>

ExecNext ==
    \E p \in Procs :
        \/ ExecInvoke(p)
        \/ Sync(p)
        \/ Load(p)
        \/ AcquireLock(p)
        \/ ExecStartPrimary(p)
        \/ PrimaryExit(p)
        \/ PollCheck(p)
        \/ ExecProbe(p)
        \/ RecoveryExit(p)

ExecSpec == ExecInit /\ [][ExecNext]_vars

\* the command line the host profile under analysis gives for `command`
LineFor(command) ==
    composed_line(call.host, command, call.env, call.env_vars)

RecoverySpawned(p) == call.fn = "exec" /\ recovery_runs[p] > 0

(***************************************************************************)
(* C26: the recovery command goes through the same path as the primary     *)
(* command: whenever it was spawned, the transport was handed first the    *)
(* primary's and then the recovery's command line, each the composition of *)
(* that command under the same host, path, shell, wrapper, strict flag and *)
(* file variables; and the recovery's exit status is the final result.     *)
(***************************************************************************)
C26_RecoverySamePath ==
    \A p \in Procs :
        RecoverySpawned(p) =>
            /\ Len(sent) = 2
            /\ sent[1] = ssh_args(call.host.hostname,
                                  LineFor(call.command).ok)
            /\ IsOk(LineFor(Unwrap(call.host.reconnect_command)))
            /\ sent[2] = ssh_args(call.host.hostname,
                             LineFor(Unwrap(call.host.reconnect_command)).ok)
            /\ (Done(p) /\ rc_exit[p] # None) =>
                   result[p] = Some(Ok(Unwrap(rc_exit[p])))

\* a recovery command with a placeholder, wrapped, has run after the probe
\* succeeded, and its status, not the primary's 255, was returned
C26_Witness ==
    \E p \in Procs :
        /\ RecoverySpawned(p)
        /\ call.host.wrapper = Some(<<"w", " ", "{", "}">>)
        /\ call.host.reconnect_command
               = Some(<<"r", " ">> \o Required(<<"A">>))
        /\ call.env_vars[<<"A">>] = Some(<<"f">>)
        /\ call.env[<<"A">>] = None
        /\ Len(sent) = 2
        /\ sent[2].full_cmd
               = <<"c", "d", " ", "\"">> \o SrvApp
                     \o <<"\"", " ", "&", "&", " ", "w", " ", "r", " ", "f">>
        /\ Returned(p, Ok(0))
        /\ exit_code[p] = Some(Disconnect)

(***************************************************************************)
(* C27: a waiting acquisition succeeds when the lock becomes free in time: *)
(* a waiter whose wait is below its timeout passes the check at the top of *)
(* the loop, a waiter whose poll finds the lock free is handed the guard   *)
(* by that poll, and a waiter that finds the lock released before its      *)
(* timeout, no other invocation claiming it, ends up with the guard and    *)
(* never with the timeout error.                                           *)
(***************************************************************************)
\* p waits, its timeout has not elapsed, and the lock it waits for is free
FreeInTime(p) ==
    /\ InLockWait(p)
    /\ waited[p] < args[p].lock_timeout
    /\ ~Locked(LockPathOf(p))

C27_FreeLockIsGranted ==
    /\ [][\A p \in Procs :
             (FreeInTime(p) /\ pc'[p] # pc[p]) =>
                 /\ pc[p] = "lock_check" => pc'[p] = "lock_sleep"
                 /\ pc[p] = "lock_sleep" =>
                        /\ guard'[p] = Some(LockPathOf(p))
                        /\ pc'[p] = "guarded"
                 /\ result'[p] = None]_vars
    /\ \A p \in Procs :
          FreeInTime(p) ~> (HoldsGuard(p) /\ acquired[p] = 1)

\* the waiter polled once without success, the holder then returned and
\* released the lock, and the waiter's next poll handed it the guard
C27_Witness ==
    \E p, q \in Procs :
        /\ p # q /\ SamePair(p, q)
        /\ Done(q) /\ released[q] = 1 /\ ReturnedOk(q)
        /\ pc[p] = "guarded" /\ HoldsGuard(p)
        /\ args[p].lock_timeout > LockPollInterval
        /\ waited[p] >= 2 * LockPollInterval

(***************************************************************************)
(* C28 as stated: acquire_lock returns, with the guard or with the timeout *)
(* error, at a waited time no greater than the timeout.                    *)
(***************************************************************************)
LockWaitEnded(p) ==
    /\ UsesLock(p)
    /\ \/ pc[p] = "guarded" /\ HoldsGuard(p)
       \/ Returned(p, Err("lock_timeout"))

C28_Original ==
    \A p \in Procs :
        LockWaitEnded(p) => waited[p] <= args[p].lock_timeout

(***************************************************************************)
(* C28: the wait of acquire_lock is bounded by the timeout plus one sleep: *)
(* a sleep is entered only while the time waited is below the timeout, so  *)
(* the poll that follows it, and with it a grant or the timeout error,     *)
(* comes less than one sleep (2s and its lateness) after the timeout; the  *)
(* timeout error is returned only with the time waited at or beyond the    *)
(* timeout.                                                                *)
(***************************************************************************)
C28_WaitBoundedByTimeoutPlusSleep ==
    \A p \in Procs :
        UsesLock(p) =>
            /\ pc[p] = "lock_sleep" => waited[p] < args[p].lock_timeout
            /\ (InLockWait(p) \/ LockWaitEnded(p)) =>
                   \/ waited[p] = 0
                   \/ waited[p] < args[p].lock_timeout
                                      + LockPollInterval + MaxJitter
            /\ Returned(p, Err("lock_timeout")) =>
                   waited[p] >= args[p].lock_timeout

\* the guard was handed over by a poll that came after the timeout, one
\* punctual sleep after the check that let it pass
C28_Witness ==
    \E p \in Procs :
        /\ UsesLock(p)
        /\ pc[p] = "guarded" /\ HoldsGuard(p)
        /\ args[p].lock_timeout > 0
        /\ waited[p] > args[p].lock_timeout
        /\ waited[p] = args[p].lock_timeout - 1 + LockPollInterval

(***************************************************************************)
(* C29: acquire_lock first makes a non-blocking exclusive claim: when the  *)
(* lock is free at the call (and the lock file could be opened) the guard  *)
(* is returned by that claim, with no sleep and for every timeout, 0       *)
(* included; the poll loop with its timeout check is entered only from a   *)
(* first claim that failed because the lock was held.                      *)
(***************************************************************************)
C29_FirstClaimBeforeLoop ==
    [][\A p \in Procs :
          /\ (pc[p] = "acquire" /\ pc'[p] # pc[p]) =>
                /\ ~Locked(LockPathOf(p)) =>
                      \/ /\ pc'[p] = "guarded"
                         /\ guard'[p] = Some(LockPathOf(p))
                         /\ waited'[p] = 0
                         /\ result'[p] = None
                      \/ result'[p] = Some(Err("open_lock"))
                /\ result'[p] # Some(Err("lock_timeout"))
          /\ (~InLockWait(p) /\ pc'[p] \in {"lock_check", "lock_sleep"}) =>
                /\ pc[p] = "acquire"
                /\ Locked(LockPathOf(p))
                /\ pc'[p] = "lock_check"]_vars

\* with timeout 0 the guard was handed over by the first claim
C29_Witness ==
    \E p \in Procs :
        /\ UsesLock(p)
        /\ args[p].lock_timeout = 0
        /\ pc[p] = "guarded" /\ HoldsGuard(p)
        /\ waited[p] = 0 /\ acquired[p] = 1

(***************************************************************************)
(* acquire_lock called again for a pair by the process that holds the      *)
(* guard of that pair.  The second call opens the lock file anew (lock.rs  *)
(* 26-30), so it has its own row of the lock table: flock() denies a lock  *)
(* that the process holds through another open file.  While the call runs  *)
(* its caller does nothing else, and so never drops the first guard.       *)
(***************************************************************************)
Holder == 1

Nested == 2

MaxNestedTimeout == 5

NestedCalls ==
    [ fn : {"acquire_lock"}, hostname : HostNames,
      lock_name : {DefaultLockName, OtherLockName, CliLockName},
      timeout : 0..MaxNestedTimeout ]

LockSettings(c) ==
    [ NoSettings EXCEPT !.hostname = c.hostname,
                        !.lock_name = Some(c.lock_name),
                        !.lock_timeout = c.timeout ]

ReentryInit ==
    /\ call \in NestedCalls
    /\ ret = None
    /\ sent = <<>>
    /\ pc = [p \in Procs |-> IF p = Holder THEN "guarded" ELSE "acquire"]
    /\ args = [p \in Procs |-> LockSettings(call)]
    /\ guard = [p \in Procs |->
                   IF p = Holder
                   THEN Some(lock_path(call.hostname, call.lock_name))
                   ELSE None]
    /\ acquired = [p \in Procs |-> IF p = Holder THEN 1 ELSE 0]
    /\ waited = [p \in Procs |-> 0]
    /\ exit_code = [p \in Procs |-> None]
    /\ elapsed = [p \in Procs |-> 0]
    /\ result = [p \in Procs |-> None]
    /\ released = [p \in Procs |-> 0]
    /\ primary_runs = [p \in Procs |-> 0]
    /\ recovery_runs = [p \in Procs |-> 0]
    /\ rc_exit = [p \in Procs |-> None]
    /\ passed_at = [p \in Procs |-> None]
    /\ probe_at = [p \in Procs |-> None]
    /\ recovery_at = [p \in Procs |-> None]

ReentryNext ==
    \/ AcquireLock(Nested)
    \/ LockCheck(Nested)
    \/ LockPoll(Nested)

\* the sleep and the lock attempt of the second call return
ReentrySpec ==
    /\ ReentryInit
    /\ [][ReentryNext]_vars
    /\ WF_vars(LockCheck(Nested))
    /\ WF_vars(LockPoll(Nested))

(***************************************************************************)
(* C30 as stated: the second call is never granted the lock and never      *)
(* returns: the process blocks on itself for good.                         *)
(***************************************************************************)
C30_Original ==
    /\ acquired[Nested] = 0
    /\ ~Returned(Nested, Err("lock_timeout"))

(***************************************************************************)
(* C30: acquisition is not re-entrant: the second call for a pair whose    *)
(* guard the process holds is never granted the lock and the first guard   *)
(* stays in place; the call waits on the process's own guard and, once in  *)
(* the poll loop, ends by returning the timeout error (it does not block   *)
(* for ever), with the time waited at or beyond the timeout.               *)
(***************************************************************************)
C30_NotReentrant ==
    /\ [](/\ acquired[Nested] = 0 /\ ~HoldsGuard(Nested)
          /\ HoldsGuard(Holder) /\ SamePair(Holder, Nested)
          /\ Done(Nested) =>
                \/ Returned(Nested, Err("open_lock"))
                \/ /\ Returned(Nested, Err("lock_timeout"))
                   /\ waited[Nested] >= call.timeout)
    /\ InLockWait(Nested) ~> Returned(Nested, Err("lock_timeout"))

\* the second call polled its own process's lock and gave up after the
\* timeout, the first guard still held
C30_Witness ==
    /\ call.fn = "acquire_lock"
    /\ call.timeout > LockPollInterval
    /\ Returned(Nested, Err("lock_timeout"))
    /\ waited[Nested] >= call.timeout
    /\ HoldsGuard(Holder) /\ guard[Holder] = Some(LockPathOf(Nested))

(***************************************************************************)
(* C31: when the composition of the primary command fails (a required      *)
(* variable missing under strict mode, or a wrapper without its token),    *)
(* run returns that error from the step that would have spawned the        *)
(* client: nothing is handed to the client, the primary command is not     *)
(* run, no polling and no recovery take place, nothing is tried again, and *)
(* the guard acquired for the invocation is released.                      *)
(***************************************************************************)
PrimaryCompositionFails ==
    call.fn = "exec" /\ ~IsOk(LineFor(call.command))

C31_CompositionFailureIsFatal ==
    /\ [](PrimaryCompositionFails =>
             /\ sent = <<>>
             /\ \A p \in Procs :
                   /\ primary_runs[p] = 0 /\ recovery_runs[p] = 0
                   /\ ~InRemotePhase(p)
                   /\ exit_code[p] = None /\ probe_at[p] = None
                   /\ Done(p) => (~HoldsGuard(p) /\ released[p] = acquired[p]))
    /\ [][\A p \in Procs :
             (/\ PrimaryCompositionFails
              /\ pc[p] = "guarded" /\ ~args[p].dry_run
              /\ pc'[p] # pc[p]) =>
                 /\ pc'[p] = "done"
                 /\ result'[p] = Some(Err("compose_err"))
                 /\ ret' = Some(LineFor(call.command))
                 /\ guard'[p] = None
                 /\ released'[p] = acquired[p]]_vars

\* under strict mode the command names a variable defined nowhere: run has
\* returned the substitution error, the lock it had taken is released and
\* the client was never started
C31_Witness ==
    \E p \in Procs :
        /\ call.fn = "exec"
        /\ call.host.strict_env
        /\ call.command = <<"e", " ">> \o Required(<<"A">>)
        /\ Returned(p, Err("compose_err"))
        /\ ret = Some(Err([context |-> "command", missing |-> <<<<"A">>>>]))
        /\ UsesLock(p) /\ acquired[p] = 1 /\ released[p] = 1
        /\ ~HoldsGuard(p)
        /\ sent = <<>> /\ primary_runs[p] = 0

(***************************************************************************)
(* C32: in one invocation the primary command is run at most once and the  *)
(* recovery command at most once; once a probe has succeeded the           *)
(* invocation is either running the recovery command or has returned, and  *)
(* the end of the recovery command, whatever its status (255 included), or *)
(* its failure to spawn, ends run: no further check, probe or recovery     *)
(* follows.                                                                *)
(***************************************************************************)
RecoveryTriggered(p) == recovery_at[p] # None

C32_AtMostOnce ==
    /\ [](\A p \in Procs :
             /\ primary_runs[p] <= 1 /\ recovery_runs[p] <= 1
             /\ recovery_runs[p] <= primary_runs[p]
             /\ RecoveryTriggered(p) => (pc[p] = "recovery" \/ Done(p))
             /\ rc_exit[p] # None =>
                    /\ Returned(p, Ok(Unwrap(rc_exit[p])))
                    /\ recovery_runs[p] = 1)
    /\ [][\A p \in Procs :
             /\ (RecoveryTriggered(p) /\ pc'[p] # pc[p]) => pc'[p] = "done"
             /\ RecoveryTriggered(p) =>
                    /\ primary_runs'[p] = primary_runs[p]
                    /\ recovery_runs'[p] = recovery_runs[p]
                    /\ probe_at'[p] = probe_at[p]
             /\ Done(p) => UNCHANGED <<pc[p], result[p], primary_runs[p],
                                       recovery_runs[p], probe_at[p]>>]_vars

\* the recovery command itself ended with 255: that status was returned,
\* after one run of each command
C32_Witness ==
    \E p \in Procs :
        /\ rc_exit[p] = Some(Disconnect)
        /\ Returned(p, Ok(Disconnect))
        /\ primary_runs[p] = 1 /\ recovery_runs[p] = 1

(***************************************************************************)
(* C33: when run is called with sync requested, the sync is the first step *)
(* and is over before the lock is claimed: during the sync the invocation  *)
(* holds no guard and has made no attempt, the first attempt follows the   *)
(* loading step that follows a sync that succeeded, and a sync that fails  *)
(* ends run with its error, no lock acquired and no remote command, probe  *)
(* or recovery executed.                                                   *)
(***************************************************************************)
SyncRequested == call.fn = "run" /\ call.in.do_sync

NothingDoneYet(p) ==
    /\ acquired[p] = 0 /\ ~HoldsGuard(p) /\ waited[p] = 0
    /\ primary_runs[p] = 0 /\ recovery_runs[p] = 0
    /\ exit_code[p] = None /\ probe_at[p] = None /\ rc_exit[p] = None

C33_SyncBeforeLock ==
    /\ [](SyncRequested =>
             \A p \in Procs :
                 /\ pc[p] = "sync" => NothingDoneYet(p)
                 /\ Returned(p, Err("sync")) => NothingDoneYet(p))
    /\ [][SyncRequested =>
             \A p \in Procs :
                 /\ (pc[p] = "idle" /\ pc'[p] # pc[p]) => pc'[p] = "sync"
                 /\ (pc[p] = "sync" /\ pc'[p] # pc[p]) =>
                        \/ pc'[p] = "load" /\ result'[p] = None
                        \/ pc'[p] = "done" /\ result'[p] = Some(Err("sync"))
                 /\ (pc'[p] = "load" /\ pc'[p] # pc[p]) => pc[p] = "sync"
                 /\ (pc'[p] = "acquire" /\ pc'[p] # pc[p]) => pc[p] = "load"
                 /\ (guard'[p] # guard[p] /\ guard'[p] # None) =>
                        pc[p] \in {"acquire", "lock_sleep"}]_vars

\* with a lock configured and held by another invocation, the sync of this
\* one ran and failed at once: it has returned the error without any claim
C33_Witness ==
    \E p, q \in Procs :
        /\ SyncRequested
        /\ p # q /\ SamePair(p, q)
        /\ HoldsGuard(q) /\ pc[q] = "primary"
        /\ Returned(p, Err("sync"))
        /\ NothingDoneYet(p)

(***************************************************************************)
(* C34: in dry-run mode run executes no primary command, no probe and no   *)
(* recovery command and returns 0 from the point where the primary command *)
(* would start; it gets there holding the configured lock, acquired as in  *)
(* a real run (with the wait and the timeout error), and the guard is      *)
(* released when run returns.                                              *)
(***************************************************************************)
DryRun(p) == Invoked(p) /\ args[p].dry_run

C34_DryRun ==
    /\ [](\A p \in Procs :
             DryRun(p) =>
                 /\ primary_runs[p] = 0 /\ recovery_runs[p] = 0
                 /\ exit_code[p] = None /\ probe_at[p] = None
                 /\ rc_exit[p] = None
                 /\ ~InRemotePhase(p)
                 /\ (UsesLock(p) /\ pc[p] = "guarded") =>
                        (HoldsGuard(p) /\ acquired[p] = 1)
                 /\ Done(p) => (~HoldsGuard(p) /\ released[p] = acquired[p])
                 /\ ReturnedOk(p) =>
                        /\ result[p] = Some(Ok(0))
                        /\ UsesLock(p) => acquired[p] = 1)
    /\ [][\A p \in Procs :
             /\ (DryRun(p) /\ pc[p] = "guarded" /\ pc'[p] # pc[p]) =>
                    /\ pc'[p] = "done" /\ result'[p] = Some(Ok(0))
                    /\ guard'[p] = None
             /\ (DryRun(p) /\ UsesLock(p) /\ pc[p] = "load"
                 /\ pc'[p] # pc[p]) =>
                    pc'[p] \in {"acquire", "done"}
             /\ (DryRun(p) /\ pc[p] = "lock_check"
                 /\ waited[p] >= args[p].lock_timeout /\ pc'[p] # pc[p]) =>
                    result'[p] = Some(Err("lock_timeout"))]_vars

\* two dry runs of one pair: one was handed the lock and has returned 0 and
\* released it; the other had polled for it in the meantime and returned
\* the timeout error
C34_Witness ==
    \E p, q \in Procs :
        /\ p # q /\ SamePair(p, q)
        /\ DryRun(p) /\ DryRun(q)
        /\ Returned(p, Ok(0)) /\ acquired[p] = 1 /\ released[p] = 1
        /\ primary_runs[p] = 0
        /\ Returned(q, Err("lock_timeout"))
        /\ waited[q] >= LockPollInterval

(***************************************************************************)
(* C35: the recovery command is composed only after a disconnect and a     *)
(* successful probe.  With a recovery command whose composition fails (a   *)
(* variable missing under strict mode): the primary command is started all *)
(* the same; a primary status other than 255 is returned as it is; a       *)
(* polling that times out returns 255; and the composition error of the    *)
(* recovery command is returned only by the step in which a probe          *)
(* succeeded after a primary status of 255.                                *)
(***************************************************************************)
RecoveryCompositionFails ==
    /\ call.fn = "exec"
    /\ IsOk(LineFor(call.command))
    /\ call.host.reconnect_command # None
    /\ ~IsOk(LineFor(Unwrap(call.host.reconnect_command)))

C35_RecoveryComposedLazily ==
    /\ [](RecoveryCompositionFails =>
             \A p \in Procs :
                 /\ (Done(p) /\ exit_code[p] # None
                     /\ exit_code[p] # Some(Disconnect)) =>
                        result[p] = Some(Ok(Unwrap(exit_code[p])))
                 /\ (Done(p) /\ exit_code[p] = Some(Disconnect)
                     /\ recovery_at[p] = None) =>
                        result[p] = Some(Ok(Disconnect))
                 /\ Returned(p, Err("compose_err")) =>
                        /\ exit_code[p] = Some(Disconnect)
                        /\ recovery_at[p] # None
                        /\ primary_runs[p] = 1 /\ recovery_runs[p] = 0
                        /\ ret = Some(LineFor(
                                     Unwrap(call.host.reconnect_command)))
                 /\ recovery_runs[p] = 0
                 /\ Len(sent) <= 1)
    /\ [][RecoveryCompositionFails =>
             \A p \in Procs :
                 /\ (pc[p] = "guarded" /\ ~args[p].dry_run
                     /\ pc'[p] # pc[p]) =>
                        \/ pc'[p] = "primary"
                        \/ result'[p] = Some(Err("spawn_err"))
                 /\ (ret' # ret) =>
                        /\ pc[p] = "poll_sleep" => recovery_at'[p] # None
                        /\ \E q \in Procs : pc[q] = "poll_sleep"]_vars

\* under strict mode the recovery command names a variable defined
\* nowhere, and yet the primary command ran and its status 0 was returned
C35_Witness ==
    \E p \in Procs :
        /\ RecoveryCompositionFails
        /\ call.host.strict_env
        /\ call.host.reconnect_command
               = Some(<<"r", " ">> \o Required(<<"B">>))
        /\ primary_runs[p] = 1 /\ Len(sent) = 1
        /\ exit_code[p] = Some(0)
        /\ Returned(p, Ok(0))
        /\ ret = None

====
